---- MODULE Spec2Model ----
(***************************************************************************)
(* A model of the ray tracer: the vector and matrix arithmetic, rays,      *)
(* shapes, hit selection, the world's shading functions and the camera's   *)
(* sequential and parallel renders.                                        *)
(*                                                                         *)
(* Numbers.  The source computes in f64.  The model computes in fixed      *)
(* point: a real r is the integer r * One, and a product, a quotient and a *)
(* square root are rounded to the nearest representable number, as f64     *)
(* arithmetic rounds.  Every scene the specifications draw lies on the z   *)
(* axis with coordinates that are multiples of One, so that the only       *)
(* rounding is the one the over-point's epsilon introduces.                *)
(***************************************************************************)
EXTENDS Integers, Sequences, FiniteSets, TLC

\* Resolution of the fixed-point representation: the integer that stands for 1.0.
One == 6 * 10

\* float.rs:1-2.  EPSILON is the smallest positive step of the representation.
EPSILON == 1

\* Option<T>: None is the empty sequence, Some(x) the sequence of x alone.
None == <<>>
Some(x) == <<x>>

\* A call either returns a value or panics (assert!, expect, unwrap, an index
\* out of range): Ok(v) and Panic are its two outcomes.
Ok(v) == [ok |-> TRUE, v |-> v]
Panic == [ok |-> FALSE]

Abs(a) == IF a < 0 THEN -a ELSE a
\* n / d rounded to the nearest integer.
Round(n, d) == IF d < 0 THEN (2 * (-n) + (-d)) \div (2 * (-d)) ELSE (2 * n + d) \div (2 * d)
Mul(a, b) == Round(a * b, One)
Div(a, b) == Round(a * One, b)

RECURSIVE isqrt_between(_, _, _)
isqrt_between(n, lo, hi) ==
    IF lo >= hi THEN lo
    ELSE LET mid == (lo + hi + 1) \div 2
         IN IF mid * mid <= n THEN isqrt_between(n, mid, hi)
                              ELSE isqrt_between(n, lo, mid - 1)

\* f64::sqrt on a non-negative fixed-point number.
Sqrt(a) ==
    LET n == a * One
        r == isqrt_between(n, 0, 40000)
    IN IF n - r * r > r THEN r + 1 ELSE r

(***************************************************************************)
(* math/tuple.rs: a tuple is <<x, y, z, w>>.                               *)
(***************************************************************************)
point(x, y, z) == <<x, y, z, One>>
vector(x, y, z) == <<x, y, z, 0>>
ZERO == <<0, 0, 0, 0>>
ZERO_POINT == point(0, 0, 0)

is_point(t) == t[4] = One
is_vector(t) == t[4] = 0

tuple_add(a, b) == <<a[1] + b[1], a[2] + b[2], a[3] + b[3], a[4] + b[4]>>
tuple_sub(a, b) == <<a[1] - b[1], a[2] - b[2], a[3] - b[3], a[4] - b[4]>>
tuple_neg(a) == <<-a[1], -a[2], -a[3], -a[4]>>
tuple_mul(a, f) == <<Mul(a[1], f), Mul(a[2], f), Mul(a[3], f), Mul(a[4], f)>>

dot(a, b) == Mul(a[1], b[1]) + Mul(a[2], b[2]) + Mul(a[3], b[3]) + Mul(a[4], b[4])

magnitude(a) == Sqrt(Mul(a[1], a[1]) + Mul(a[2], a[2]) + Mul(a[3], a[3]) + Mul(a[4], a[4]))

\* Division by a zero magnitude gives NaN components in the source.  NaN is a
\* number outside the range of every coordinate; it is neither 0 nor One, so
\* is_point and is_vector reject it as the source's comparisons with NaN do.
NaN == 0 - 1000000
\* The f64 -0.0 where its sign decides an outcome, the t of an intersection:
\* -0.0 == 0.0 and -0.0 >= 0.0 hold, while total_cmp puts -0.0 before 0.0.
NegZero == 0 - 2000000
\* The number a t stands for.
float_value(t) == IF t = NegZero THEN 0 ELSE t
\* f64::total_cmp on two t: the order of the keys.
total_key(t) == IF t = NegZero THEN 0 - 1 ELSE 2 * t
divide_by(a, mag) ==
    IF mag = 0 THEN <<NaN, NaN, NaN, NaN>>
    ELSE <<Div(a[1], mag), Div(a[2], mag), Div(a[3], mag), Div(a[4], mag)>>
normalize(a) == divide_by(a, magnitude(a))

reflect(v, normal) == tuple_sub(v, tuple_mul(tuple_mul(normal, 2 * One), dot(v, normal)))

(***************************************************************************)
(* math/matrix.rs: a matrix is a sequence of rows, M[row][col], 1-based.   *)
(***************************************************************************)
IDENTITY_4X4 ==
    << <<One, 0, 0, 0>>, <<0, One, 0, 0>>, <<0, 0, One, 0>>, <<0, 0, 0, One>> >>

translation(x, y, z) ==
    << <<One, 0, 0, x>>, <<0, One, 0, y>>, <<0, 0, One, z>>, <<0, 0, 0, One>> >>

scaling(x, y, z) ==
    << <<x, 0, 0, 0>>, <<0, y, 0, 0>>, <<0, 0, z, 0>>, <<0, 0, 0, One>> >>

matrix_col(m, c) == <<m[1][c], m[2][c], m[3][c], m[4][c]>>
transpose(m) == <<matrix_col(m, 1), matrix_col(m, 2), matrix_col(m, 3), matrix_col(m, 4)>>

\* A sequence without its k-th element.
DropAt(s, k) == SubSeq(s, 1, k - 1) \o SubSeq(s, k + 1, Len(s))

RECURSIVE drop_col(_, _)
drop_col(rows, col) ==
    IF rows = <<>> THEN <<>> ELSE <<DropAt(Head(rows), col)>> \o drop_col(Tail(rows), col)

submatrix(m, row, col) == drop_col(DropAt(m, row), col)

RECURSIVE determinate(_)
minor(m, row, col) == determinate(submatrix(m, row, col))
cofactor(m, row, col) ==
    IF (row + col) % 2 = 0 THEN minor(m, row, col) ELSE -minor(m, row, col)

\* The sum over the first row from column col on.
RECURSIVE first_row_sum(_, _)
first_row_sum(m, col) ==
    IF col > Len(m) THEN 0
    ELSE Mul(m[1][col], cofactor(m, 1, col)) + first_row_sum(m, col + 1)

determinate(m) ==
    IF Len(m) = 2 THEN Mul(m[1][1], m[2][2]) - Mul(m[1][2], m[2][1])
    ELSE first_row_sum(m, 1)

can_invert(m) == determinate(m) # 0

\* out[(col, row)] = cofactor(row, col) / determinate, for the four rows.
inverse_row(m, col, det) ==
    <<Div(cofactor(m, 1, col), det), Div(cofactor(m, 2, col), det),
      Div(cofactor(m, 3, col), det), Div(cofactor(m, 4, col), det)>>

\* The inverse with out[(row, col)] written in place of out[(col, row)].
inverse_by_unflipped(m, det) ==
    IF det = 0 THEN None
    ELSE Some(transpose(<<inverse_row(m, 1, det), inverse_row(m, 2, det),
                          inverse_row(m, 3, det), inverse_row(m, 4, det)>>))

\* Matrix::inverse, matrix.rs:138-152, from the determinate on.
inverse_by(m, det) ==
    IF det = 0 THEN None
    ELSE Some(<<inverse_row(m, 1, det), inverse_row(m, 2, det),
                inverse_row(m, 3, det), inverse_row(m, 4, det)>>)
inverse(m) == inverse_by(m, determinate(m))

\* impl Mul for Matrix, matrix.rs:187-206: the row of the left matrix times the
\* column of the right one.
matrix_mul_row(a, b, row) ==
    <<dot(a[row], matrix_col(b, 1)), dot(a[row], matrix_col(b, 2)),
      dot(a[row], matrix_col(b, 3)), dot(a[row], matrix_col(b, 4))>>
matrix_mul(a, b) ==
    <<matrix_mul_row(a, b, 1), matrix_mul_row(a, b, 2),
      matrix_mul_row(a, b, 3), matrix_mul_row(a, b, 4)>>

matrix_mul_tuple(m, t) == <<dot(t, m[1]), dot(t, m[2]), dot(t, m[3]), dot(t, m[4])>>

(***************************************************************************)
(* math/matrix/transform.rs.  An angle is a whole number of quarter turns, *)
(* the angles whose sine and cosine the fixed-point numbers represent      *)
(* exactly.                                                                *)
(***************************************************************************)
sin(radians) ==
    IF radians % 4 = 1 THEN One ELSE IF radians % 4 = 3 THEN -One ELSE 0
cos(radians) ==
    IF radians % 4 = 0 THEN One ELSE IF radians % 4 = 2 THEN -One ELSE 0

rotation_x(radians) ==
    << <<One, 0, 0, 0>>, <<0, cos(radians), -sin(radians), 0>>,
       <<0, sin(radians), cos(radians), 0>>, <<0, 0, 0, One>> >>
rotation_y(radians) ==
    << <<cos(radians), 0, sin(radians), 0>>, <<0, One, 0, 0>>,
       <<-sin(radians), 0, cos(radians), 0>>, <<0, 0, 0, One>> >>
rotatation_z(radians) ==
    << <<cos(radians), -sin(radians), 0, 0>>, <<sin(radians), cos(radians), 0, 0>>,
       <<0, 0, One, 0>>, <<0, 0, 0, One>> >>

\* A translate that multiplies from the right.
translate_from_right(m, x, y, z) == matrix_mul(m, translation(x, y, z))

\* transform.rs:90-107: the fluent calls.
translate(m, x, y, z) == matrix_mul(translation(x, y, z), m)
\* scale multiplying the accumulated matrix from the right.
scale_from_right(m, x, y, z) == matrix_mul(m, scaling(x, y, z))
scale(m, x, y, z) == matrix_mul(scaling(x, y, z), m)
rotate_x(m, radians) == matrix_mul(rotation_x(radians), m)
rotate_y(m, radians) == matrix_mul(rotation_y(radians), m)
rotate_z(m, radians) == matrix_mul(rotatation_z(radians), m)

(***************************************************************************)
(* ray.rs                                                                  *)
(***************************************************************************)
\* Ray::new without its second assertion.
ray_new_any_direction(origin, direction) ==
    IF is_point(origin)
    THEN Ok([origin |-> origin, direction |-> direction])
    ELSE Panic

\* Ray::new, ray.rs:12-17.
ray_new(origin, direction) ==
    IF is_point(origin) /\ is_vector(direction)
    THEN Ok([origin |-> origin, direction |-> direction])
    ELSE Panic

position(ray, dst) == tuple_add(ray.origin, tuple_mul(ray.direction, dst))

ray_transform(ray, matrix) ==
    ray_new(matrix_mul_tuple(matrix, ray.origin), matrix_mul_tuple(matrix, ray.direction))


(***************************************************************************)
(* colour.rs: a colour is <<red, green, blue>>.                            *)
(***************************************************************************)
BLACK == <<0, 0, 0>>
WHITE == <<One, One, One>>

colour_add(a, b) == <<a[1] + b[1], a[2] + b[2], a[3] + b[3]>>
colour_mul(a, b) == <<Mul(a[1], b[1]), Mul(a[2], b[2]), Mul(a[3], b[3])>>
colour_mul_f(a, f) == <<Mul(a[1], f), Mul(a[2], f), Mul(a[3], f)>>
colour_div_f(a, f) == <<Div(a[1], f), Div(a[2], f), Div(a[3], f)>>

(***************************************************************************)
(* materials.rs                                                            *)
(***************************************************************************)
\* f64::powf for an exponent that is a whole number, by squaring.
RECURSIVE powi(_, _)
powi(r, n) ==
    IF n = 0 THEN One
    ELSE LET half == powi(r, n \div 2)
         IN IF n % 2 = 0 THEN Mul(half, half) ELSE Mul(r, Mul(half, half))
powf(r, s) == powi(r, s \div One)

\* Material::lighting as materials.rs has it: the point is lit.
\* materials.rs:45-59: the diffuse and the specular contribution.
diffuse_of(material, effective_colour, light_dot_normal) ==
    IF light_dot_normal < 0 THEN BLACK
    ELSE colour_mul_f(colour_mul_f(effective_colour, material.diffuse), light_dot_normal)
specular_of(material, light, light_dot_normal, reflect_dot_eye) ==
    IF light_dot_normal < 0 THEN BLACK
    ELSE IF reflect_dot_eye < 0 THEN BLACK
    ELSE colour_mul_f(colour_mul_f(light.intensity, material.specular),
                      powf(reflect_dot_eye, material.shininess))

\* materials.rs:37-61, from the direction to the light on.
lighting_towards(material, light, eye_vec, normal_vec, effective_colour, light_vec) ==
    colour_add(colour_add(colour_mul_f(effective_colour, material.ambient),
                          diffuse_of(material, effective_colour, dot(light_vec, normal_vec))),
               specular_of(material, light, dot(light_vec, normal_vec),
                           dot(reflect(tuple_neg(light_vec), normal_vec), eye_vec)))

lighting_lit(material, light, pt, eye_vec, normal_vec) ==
    lighting_towards(material, light, eye_vec, normal_vec,
                     colour_mul(material.colour, light.intensity),
                     normalize(tuple_sub(light.position, pt)))

\* The five-argument lighting that world.rs:43-49 calls: materials.rs has no
\* in_shadow parameter, the shadowed branch is the specification's.
lighting(material, light, pt, eye_vec, normal_vec, in_shadow) ==
    IF in_shadow
    THEN colour_mul_f(colour_mul(material.colour, light.intensity), material.ambient)
    ELSE lighting_lit(material, light, pt, eye_vec, normal_vec)

(***************************************************************************)
(* shape.rs, shape/sphere.rs, shape/plane.rs: a shape is                   *)
(* [id, kind, transform, material].                                        *)
(***************************************************************************)
intersection_new(t, object) == [t |-> t, object |-> object]

\* A root of sphere.rs:58-59.  With a = 0 the direction is the zero vector, b
\* and the discriminant are 0 and the quotient is 0.0 / 0.0.
root_over(numerator, a) == IF a = 0 THEN NaN ELSE Div(numerator, 2 * a)

\* The first root, sphere.rs:58: with b = 0.0 and disroot = 0.0 the
\* numerator -b - disroot is -0.0 - 0.0 = -0.0, and so is the quotient; a
\* numerator x - x is 0.0.
root_signed(b, disroot, a) ==
    IF a # 0 /\ b = 0 /\ disroot = 0 THEN NegZero ELSE root_over(-b - disroot, a)

\* The routine with a single intersection for a ray that touches the sphere.
sphere_local_single_tangent(shape, ray) ==
    LET s2r == tuple_sub(ray.origin, point(0, 0, 0))
        a == dot(ray.direction, ray.direction)
        b == 2 * dot(ray.direction, s2r)
        c == dot(s2r, s2r) - One
        discriminant == Mul(b, b) - 4 * Mul(a, c)
        disroot == Sqrt(discriminant)
    IN IF discriminant < 0 THEN None
       ELSE IF discriminant = 0 THEN Some(<< intersection_new(root_over(-b, a), shape) >>)
       ELSE Some(<< intersection_new(root_over(-b - disroot, a), shape),
                    intersection_new(root_over(-b + disroot, a), shape) >>)

\* sphere.rs:45-60, the unit sphere at the local origin.
sphere_local_interception(shape, ray) ==
    LET s2r == tuple_sub(ray.origin, point(0, 0, 0))
        a == dot(ray.direction, ray.direction)
        b == 2 * dot(ray.direction, s2r)
        c == dot(s2r, s2r) - One
        discriminant == Mul(b, b) - 4 * Mul(a, c)
        disroot == Sqrt(discriminant)
    IN IF discriminant < 0 THEN None
       ELSE Some(<< intersection_new(root_signed(b, disroot, a), shape),
                    intersection_new(root_over(-b + disroot, a), shape) >>)

\* -origin.y / direction.y, plane.rs:53: an origin in the plane gives -0.0
\* over direction.y, which is -0.0 for a direction that goes up.
plane_t(origin_y, direction_y) ==
    IF origin_y = 0 /\ direction_y > 0 THEN NegZero ELSE Div(-origin_y, direction_y)

\* plane.rs:47-57, the local xz plane.
plane_local_interception(shape, ray) ==
    IF Abs(ray.direction[2]) < EPSILON THEN None
    ELSE Some(<< intersection_new(plane_t(ray.origin[2], ray.direction[2]), shape) >>)

\* The value a shape's local routine returns; a TestShape returns None
\* (test_shape.rs:39-46, which also stores the ray: saved_after below).
local_interception(shape, ray) ==
    IF shape.kind = "sphere" THEN sphere_local_interception(shape, ray)
    ELSE IF shape.kind = "test_shape" THEN None
    ELSE plane_local_interception(shape, ray)

local_normal_at(shape, pt) ==
    IF shape.kind = "sphere" THEN tuple_sub(pt, ZERO)
    ELSE IF shape.kind = "test_shape" THEN vector(pt[1], pt[2], pt[3])
    ELSE vector(0, One, 0)

\* shape.rs:41-49.  expect() on a transform that has no inverse panics.
intersect_local(shape, local_ray) ==
    IF ~local_ray.ok THEN Panic ELSE Ok(local_interception(shape, local_ray.v))
\* intersect with the world-space ray handed to the local routine as it is.
intersect_untransformed(shape, ray, inv) ==
    IF inv = None THEN Panic ELSE intersect_local(shape, Ok(ray))
intersect_with(shape, ray, inv) ==
    IF inv = None THEN Panic ELSE intersect_local(shape, ray_transform(ray, inv[1]))
intersect(shape, ray) == intersect_with(shape, ray, inverse(shape.transform))

\* The rays local_interception is called with in one call of intersect:
\* shape.rs:48 is reached once, after expect() and Ray::transform returned.
local_calls_with(ray, inv) ==
    IF inv = None THEN <<>>
    ELSE IF ~ray_transform(ray, inv[1]).ok THEN <<>>
    ELSE <<ray_transform(ray, inv[1]).v>>
local_calls(shape, ray) == local_calls_with(ray, inverse(shape.transform))

\* shape.rs:25-34.
normal_of(world_point) ==
    Ok(normalize(<<world_point[1], world_point[2], world_point[3], 0>>))
\* normal_at with the identity in place of an inverse that does not exist.
normal_with_default(shape, pt, inverted) ==
    IF inverted = None
    THEN normal_of(matrix_mul_tuple(transpose(IDENTITY_4X4), local_normal_at(shape, pt)))
    ELSE normal_of(matrix_mul_tuple(transpose(inverted[1]),
                                    local_normal_at(shape, matrix_mul_tuple(inverted[1], pt))))
normal_with(shape, pt, inverted) ==
    IF inverted = None THEN Panic
    ELSE normal_of(matrix_mul_tuple(transpose(inverted[1]),
                                    local_normal_at(shape, matrix_mul_tuple(inverted[1], pt))))
normal_at(shape, pt) == normal_with(shape, pt, inverse(shape.transform))

(***************************************************************************)
(* intersection.rs                                                         *)
(***************************************************************************)
\* Iterator::min_by keeps the earlier element unless it compares Greater.
RECURSIVE min_by_t(_, _)
min_by_t(best, rest) ==
    IF rest = <<>> THEN best
    ELSE min_by_t(IF total_key(best.t) > total_key(Head(rest).t) THEN Head(rest) ELSE best,
                  Tail(rest))

\* IntersectVec::hit, intersection.rs:57-63.
first_min(kept) == IF kept = <<>> THEN None ELSE Some(min_by_t(Head(kept), Tail(kept)))
\* The filter with the comparison strict: an intersection at t = 0 is dropped.
strictly_positive(x) == x.t > 0
non_negative(x) == x.t = NegZero \/ x.t >= 0
hit(xs) == first_min(SelectSeq(xs, non_negative))

\* The over point of the intersection computations that world.rs:45-48 reads;
\* intersection.rs does not compute it, the definition is the specification's.
over_point_of(pt, normal_vector) == tuple_add(pt, tuple_mul(normal_vector, EPSILON))

\* Intersection::prepare_computations, intersection.rs:19-37.
\* intersection.rs:23-36: the record, the normal turned towards the eye.
computations_of(i, pt, eye_vector, normal_vector, inside) ==
    Ok([object |-> i.object, t |-> i.t, point |-> pt,
        over_point |-> over_point_of(pt, normal_vector),
        eye_vector |-> eye_vector, normal_vector |-> normal_vector, inside |-> inside])
\* prepare_computations with the shape's normal returned as it is.
prepare_unflipped(i, ray, pt, normal) ==
    IF ~normal.ok THEN Panic
    ELSE computations_of(i, pt, tuple_neg(ray.direction), normal.v,
                         dot(normal.v, tuple_neg(ray.direction)) < 0)
prepare_with(i, ray, pt, normal) ==
    IF ~normal.ok THEN Panic
    ELSE IF dot(normal.v, tuple_neg(ray.direction)) < 0
    THEN computations_of(i, pt, tuple_neg(ray.direction), tuple_neg(normal.v), TRUE)
    ELSE computations_of(i, pt, tuple_neg(ray.direction), normal.v, FALSE)
prepare_at(i, ray, pt) == prepare_with(i, ray, pt, normal_at(i.object, pt))
prepare_computations(i, ray) == prepare_at(i, ray, position(ray, float_value(i.t)))

(***************************************************************************)
(* world.rs: a world is [objects, light]; a light is [intensity, position].*)
(***************************************************************************)
\* Where a stable sort puts x in a sequence already sorted by t: behind every
\* element that does not compare Greater.
\* An insertion that takes an intersection with a t already present for a
\* duplicate and drops it.
RECURSIVE insert_dedup_by_t(_, _)
insert_dedup_by_t(sorted, x) ==
    IF sorted = <<>> THEN <<x>>
    ELSE IF total_key(Head(sorted).t) > total_key(x.t) THEN <<x>> \o sorted
    ELSE IF Head(sorted).t = x.t THEN sorted
    ELSE <<Head(sorted)>> \o insert_dedup_by_t(Tail(sorted), x)

RECURSIVE insert_by_t(_, _)
insert_by_t(sorted, x) ==
    IF sorted = <<>> THEN <<x>>
    ELSE IF total_key(Head(sorted).t) > total_key(x.t) THEN <<x>> \o sorted
    ELSE <<Head(sorted)>> \o insert_by_t(Tail(sorted), x)

\* slice::sort_by(|a, b| a.t.total_cmp(&b.t)): a stable sort.
RECURSIVE sort_by_t(_)
sort_by_t(xs) ==
    IF xs = <<>> THEN <<>>
    ELSE insert_by_t(sort_by_t(SubSeq(xs, 1, Len(xs) - 1)), xs[Len(xs)])

\* flat_map(|s| s.intersect(ray).unwrap_or_default()): the shapes'
\* intersections in the order of the shapes; a panic in one of them ends it.
unwrap_or_default(xs) == IF xs = None THEN <<>> ELSE xs[1]
gather_both(xs, rest) ==
    IF ~xs.ok THEN Panic
    ELSE IF ~rest.ok THEN Panic
    ELSE Ok(unwrap_or_default(xs.v) \o rest.v)
RECURSIVE gather(_, _)
gather(objects, ray) ==
    IF objects = <<>> THEN Ok(<<>>)
    ELSE gather_both(intersect(Head(objects), ray), gather(Tail(objects), ray))

\* World::intersect_world, world.rs:27-36.
sorted_of(xs) == IF ~xs.ok THEN Panic ELSE Ok(sort_by_t(xs.v))
intersect_world(world, ray) == sorted_of(gather(world.objects, ray))

\* World::is_shadowed_by, world.rs:72-81.
\* The test without the distance: any hit shadows.
is_some_at_all(h, distance) == h # None
\* hit.is_some_and(|hits| hits.t < distance), world.rs:80.
is_some_and_nearer(h, distance) == h # None /\ float_value(h[1].t) < distance
shadowed_among(xs, distance) ==
    IF ~xs.ok THEN Panic ELSE Ok(is_some_and_nearer(hit(xs.v), distance))
shadowed_along(world, ray, distance) ==
    IF ~ray.ok THEN Panic ELSE shadowed_among(intersect_world(world, ray.v), distance)
shadowed_towards(world, pt, v) ==
    shadowed_along(world, ray_new(pt, normalize(v)), magnitude(v))
is_shadowed_by(world, light, pt) == shadowed_towards(world, pt, tuple_sub(light.position, pt))

\* The iterator of world.rs:40-50: one lighting result per light, in order.
\* The closure with the shadow state left out: every light counts as reaching
\* the point.
light_colour_unshadowed(l, comps, in_shadow) ==
    IF ~in_shadow.ok THEN Panic
    ELSE Ok(lighting(comps.object.material, l, comps.over_point,
                     comps.eye_vector, comps.normal_vector, FALSE))
\* world.rs:43-49: the colour one light gives.
light_colour(l, comps, in_shadow) ==
    IF ~in_shadow.ok THEN Panic
    ELSE Ok(lighting(comps.object.material, l, comps.over_point,
                     comps.eye_vector, comps.normal_vector, in_shadow.v))
colours_both(c, rest) ==
    IF ~c.ok THEN Panic ELSE IF ~rest.ok THEN Panic ELSE Ok(<<c.v>> \o rest.v)
\* The iterator with the shadow test cast from the point of the hit itself.
RECURSIVE light_colours_from_point(_, _, _)
light_colours_from_point(world, lights, comps) ==
    IF lights = <<>> THEN Ok(<<>>)
    ELSE colours_both(light_colour(Head(lights), comps,
                                   is_shadowed_by(world, Head(lights), comps.point)),
                      light_colours_from_point(world, Tail(lights), comps))
RECURSIVE light_colours(_, _, _)
light_colours(world, lights, comps) ==
    IF lights = <<>> THEN Ok(<<>>)
    ELSE colours_both(light_colour(Head(lights), comps,
                                   is_shadowed_by(world, Head(lights), comps.over_point)),
                      light_colours(world, Tail(lights), comps))

\* Iterator::reduce(|acc, c| acc + (c / count)) over what follows the first
\* element, which is the initial accumulator.
RECURSIVE reduce_average(_, _, _)
reduce_average(acc, rest, count) ==
    IF rest = <<>> THEN acc
    ELSE reduce_average(colour_add(acc, colour_div_f(Head(rest), count)), Tail(rest), count)

\* World::shade_hit, world.rs:38-53.  unwrap() of an empty reduce panics.
reduce_unwrap(cs, count) ==
    IF ~cs.ok THEN Panic
    ELSE IF cs.v = <<>> THEN Panic
    ELSE Ok(reduce_average(Head(cs.v), Tail(cs.v), count))
\* shade_hit with black returned where the world has no light.
shade_hit_or_black(world, comps) ==
    IF world.light = <<>> THEN Ok(BLACK)
    ELSE reduce_unwrap(light_colours(world, world.light, comps), Len(world.light) * One)
shade_hit(world, comps) ==
    reduce_unwrap(light_colours(world, world.light, comps), Len(world.light) * One)

\* World::colour_at, world.rs:55-66.
colour_of_comps(world, comps) == IF ~comps.ok THEN Panic ELSE shade_hit(world, comps.v)
\* hit.unwrap() without the is_none() test before it.
colour_of_unwrapped_hit(world, ray, h) ==
    IF h = None THEN Panic ELSE colour_of_comps(world, prepare_computations(h[1], ray))
colour_of_hit(world, ray, h) ==
    IF h = None THEN Ok(BLACK) ELSE colour_of_comps(world, prepare_computations(h[1], ray))
colour_among(world, ray, xs) ==
    IF ~xs.ok THEN Panic ELSE colour_of_hit(world, ray, hit(xs.v))
colour_at(world, ray) == colour_among(world, ray, intersect_world(world, ray))

\* World::is_shadowed, world.rs:68-70: any() stops at the first light that shadows.
RECURSIVE is_shadowed_from(_, _, _)
any_after(world, lights, pt, b) ==
    IF ~b.ok THEN Panic
    ELSE IF b.v THEN Ok(TRUE)
    ELSE is_shadowed_from(world, Tail(lights), pt)
is_shadowed_from(world, lights, pt) ==
    IF lights = <<>> THEN Ok(FALSE)
    ELSE any_after(world, lights, pt, is_shadowed_by(world, Head(lights), pt))

is_shadowed(world, pt) == is_shadowed_from(world, world.light, pt)

\* materials.rs:17-27.
default_material ==
    [colour |-> WHITE, ambient |-> One \div 10, diffuse |-> (9 * One) \div 10,
     specular |-> (9 * One) \div 10, shininess |-> 200 * One]

sphere_new(id, transform) ==
    [id |-> id, kind |-> "sphere", transform |-> transform, material |-> default_material]

point_light(intensity, pos) == [intensity |-> intensity, position |-> pos]

(***************************************************************************)
(* canvas.rs: a canvas is [width, height, data], data row by row.          *)
(***************************************************************************)
make_index(width, x, y) == (width * y) + x

canvas_new(width, height) ==
    [width |-> width, height |-> height, data |-> [i \in 1..(width * height) |-> BLACK]]

\* Index<(usize, usize)>: indexing the Vec out of its range panics.
canvas_index(canvas, x, y) ==
    LET i == make_index(canvas.width, x, y)
    IN IF i < Len(canvas.data) THEN Ok(canvas.data[i + 1]) ELSE Panic

\* IndexMut<(usize, usize)> followed by the assignment of c.
canvas_index_mut(canvas, x, y, c) ==
    LET i == make_index(canvas.width, x, y)
    IN IF i < Len(canvas.data)
       THEN Ok([canvas EXCEPT !.data = [canvas.data EXCEPT ![i + 1] = c]])
       ELSE Panic

(***************************************************************************)
(* camera.rs: a camera is [hsize, vsize, rays].  ray_for_pixel is float    *)
(* arithmetic on the field of view and the view transform; the model's     *)
(* camera carries its outcome, the ray through each pixel, as the table    *)
(* rays, indexed in the order of the pixels.                               *)
(***************************************************************************)
ray_for_pixel(camera, x, y) == camera.rays[x * camera.vsize + y + 1]

\* (0..hsize).flat_map(|x| (0..vsize).map(move |y| (x, y))), camera.rs:100-102.
all_pixels(camera) ==
    [k \in 1..(camera.hsize * camera.vsize) |->
        <<(k - 1) \div camera.vsize, (k - 1) % camera.vsize>>]

\* slice::chunks(size) for size > 0: consecutive slices of size elements, the
\* last one shorter when the length is no multiple of size.
RECURSIVE chunks(_, _)
chunks(list, size) ==
    IF list = <<>> THEN <<>>
    ELSE IF Len(list) <= size THEN <<list>>
    ELSE <<SubSeq(list, 1, size)>> \o chunks(SubSeq(list, size + 1, Len(list)), size)

\* The two loops of Camera::render, camera.rs:86-91, over the pixels that remain.
RECURSIVE render_from(_, _, _, _)
render_next(written, pixels, camera, world) ==
    IF ~written.ok THEN Panic ELSE render_from(written.v, Tail(pixels), camera, world)
render_pixel(canvas, pixels, camera, world, c) ==
    IF ~c.ok THEN Panic
    ELSE render_next(canvas_index_mut(canvas, Head(pixels)[1], Head(pixels)[2], c.v),
                     pixels, camera, world)
render_from(canvas, pixels, camera, world) ==
    IF pixels = <<>> THEN Ok(canvas)
    ELSE render_pixel(canvas, pixels, camera, world,
                      colour_at(world, ray_for_pixel(camera, Head(pixels)[1], Head(pixels)[2])))

\* Camera::render, camera.rs:81-94.
render(camera, world) ==
    render_from(canvas_new(camera.hsize, camera.vsize), all_pixels(camera), camera, world)

\* Camera::new_with_transform, camera.rs:30-57.  The field of view is a whole
\* number of quarter turns; tan(fov / 2) = sin(fov) / (1 + cos(fov)).
half_view_of(fov) == Div(sin(fov), One + cos(fov))
camera_of(hsize, vsize, fov, transform, half_width, half_height, inv) ==
    IF inv = None THEN Panic
    ELSE Ok([hsize |-> hsize, vsize |-> vsize, fov |-> fov,
             half_width |-> half_width, half_height |-> half_height,
             pixel_size |-> Div(half_width * 2, hsize * One),
             inverse_transform |-> inv[1], transform |-> transform])
\* The constructor with the narrow side's half extent divided by the aspect
\* ratio in both branches.
camera_with_view_divided(hsize, vsize, fov, transform, half_view, aspect_ratio) ==
    IF aspect_ratio >= One
    THEN camera_of(hsize, vsize, fov, transform, half_view, Div(half_view, aspect_ratio),
                   inverse(transform))
    ELSE camera_of(hsize, vsize, fov, transform, Div(half_view, aspect_ratio), half_view,
                   inverse(transform))
camera_with_view(hsize, vsize, fov, transform, half_view, aspect_ratio) ==
    IF aspect_ratio >= One
    THEN camera_of(hsize, vsize, fov, transform, half_view, Div(half_view, aspect_ratio),
                   inverse(transform))
    ELSE camera_of(hsize, vsize, fov, transform, Mul(half_view, aspect_ratio), half_view,
                   inverse(transform))
camera_new_with_transform(hsize, vsize, fov, transform) ==
    camera_with_view(hsize, vsize, fov, transform, half_view_of(fov),
                     Div(hsize * One, vsize * One))

\* The work list of Camera::render_parallel, camera.rs:100-105: the pixels in
\* chunks of (hsize * vsize) / divisor; slice::chunks panics on a size of 0.
work_of(camera, divisor) ==
    LET size == (camera.hsize * camera.vsize) \div divisor
    IN IF size = 0 THEN Panic ELSE Ok(chunks(all_pixels(camera), size))

(***************************************************************************)
(* Bounds of the specifications.                                           *)
(***************************************************************************)
\* camera.rs:103 divides the pixel count by 16, so every call that does not
\* panic there runs at least 16 worker threads, more than an exhaustive
\* search of their interleavings can cover.  The render specification divides
\* by ChunkDivisor instead.
ChunkDivisor == 2
\* Cameras have at most MaxPixels pixels.
MaxPixels == 4
\* Hit selection is applied to sequences of at most MaxXs intersections.
MaxXs == 4
\* Worlds have at most MaxObjects shapes and MaxLights lights.
MaxObjects == 2
MaxLights == 2

(***************************************************************************)
(* The scenes the specifications draw.                                     *)
(***************************************************************************)
singular_sphere(id) == sphere_new(id, scaling(0, 0, 0))
plane_new(id, transform) ==
    [id |-> id, kind |-> "plane", transform |-> transform, material |-> default_material]

\* Rays along the z axis: towards the sphere at the origin from in front of it,
\* away from it, and towards it from behind.
ray_towards == ray_new(point(0, 0, -5 * One), vector(0, 0, One)).v
ray_away == ray_new(point(0, 0, -5 * One), vector(0, 0, -One)).v
ray_behind == ray_new(point(0, 0, 5 * One), vector(0, 0, -One)).v
ray_inside == ray_new(point(0, 0, 0), vector(0, 0, One)).v

\* The ray through the k-th pixel of a camera.
pixel_ray(k) ==
    IF k % 3 = 1 THEN ray_towards ELSE IF k % 3 = 2 THEN ray_away ELSE ray_behind

Sizes == {hv \in (1..MaxPixels) \X (1..MaxPixels) : hv[1] * hv[2] <= MaxPixels}

Cameras ==
    { [hsize |-> hv[1], vsize |-> hv[2],
       rays |-> [k \in 1..(hv[1] * hv[2]) |-> pixel_ray(k)]] : hv \in Sizes }

light_front == point_light(WHITE, point(0, 0, -10 * One))
light_back == point_light(WHITE, point(0, 0, 10 * One))

\* A lit sphere; the same sphere without a light; a sphere whose transform has
\* no inverse; two lights.
RenderWorlds ==
    { [objects |-> <<sphere_new(1, IDENTITY_4X4)>>, light |-> <<light_front>>],
      [objects |-> <<sphere_new(1, IDENTITY_4X4)>>, light |-> <<>>],
      [objects |-> <<sphere_new(1, IDENTITY_4X4), singular_sphere(2)>>,
       light |-> <<light_front>>],
      [objects |-> <<sphere_new(1, IDENTITY_4X4), sphere_new(2, translation(0, 0, 3 * One))>>,
       light |-> <<light_front, light_back>>] }

\* The shapes of the worlds: the unit sphere at the origin, the unit sphere at
\* z = 3, the xz plane, which no ray along the z axis meets, and a sphere
\* whose transform has no inverse.
ShapeKinds == {"origin", "far", "plane", "singular"}
shape_of(kind, id) ==
    IF kind = "origin" THEN sphere_new(id, IDENTITY_4X4)
    ELSE IF kind = "far" THEN sphere_new(id, translation(0, 0, 3 * One))
    ELSE IF kind = "plane" THEN plane_new(id, IDENTITY_4X4)
    ELSE singular_sphere(id)

\* Every world of at most MaxObjects shapes, the k-th with id k, and at most
\* MaxLights lights.
Worlds ==
    UNION { { [objects |-> [k \in 1..n |-> shape_of(kinds[k], k)], light |-> lights] :
              kinds \in [1..n -> ShapeKinds],
              lights \in UNION { [1..m -> {light_front, light_back}] : m \in 0..MaxLights } } :
            n \in 0..MaxObjects }

\* Rays along the z axis from the light in front and from beyond it.
ray_from_light == ray_new(point(0, 0, -10 * One), vector(0, 0, One)).v
ray_from_beyond == ray_new(point(0, 0, -20 * One), vector(0, 0, One)).v
WorldRays == {ray_towards, ray_away, ray_behind, ray_inside, ray_from_light, ray_from_beyond}

\* The t an intersection of a hit-selection scene can have.
HitTs == {-One, 0, 2 * One, 5 * One, 7 * One}

HitSequences ==
    UNION { { [k \in 1..n |-> intersection_new(ts[k], sphere_new(k, IDENTITY_4X4))] :
              ts \in [1..n -> HitTs] } : n \in 0..MaxXs }

(***************************************************************************)
(* State.                                                                  *)
(*   scene     the inputs: a camera and a world, or a function's arguments *)
(*   call      the last call of a function under test and its outcome      *)
(*   rendered  None, or Some of the outcome of Camera::render              *)
(*   rp        where Camera::render_parallel's own thread is               *)
(*   work      the chunks no worker has been spawned for yet               *)
(*   workers   the spawned threads: [chunk, next, status]                  *)
(*   tx        whether the orchestrator still holds its sender             *)
(*   chan      the messages sent and not yet received, oldest first        *)
(*   canvas    render_parallel's canvas                                    *)
(*   count     render_parallel's count of received messages                *)
(*   writes    per pixel, the values of count at which the collector has   *)
(*             written its cell                                            *)
(***************************************************************************)
VARIABLES scene, call, rendered, rp, work, workers, tx, chan, canvas, count, writes

vars == <<scene, call, rendered, rp, work, workers, tx, chan, canvas, count, writes>>

render_vars == <<rendered, rp, work, workers, tx, chan, canvas, count, writes>>

RenderIdle ==
    /\ rendered = None
    /\ rp = "idle"
    /\ work = <<>>
    /\ workers = <<>>
    /\ tx = FALSE
    /\ chan = <<>>
    /\ canvas = canvas_new(0, 0)
    /\ count = 0
    /\ writes = <<>>

Init ==
    /\ scene \in {[camera |-> c, world |-> w] : c \in Cameras, w \in RenderWorlds}
    /\ call = [op |-> "none"]
    /\ RenderIdle

\* The receiver lives from the channel's creation until render_parallel ends.
rx_alive == rp \in {"spawning", "receiving"}

\* The sender clones that are alive: the orchestrator's and the running workers'.
senders == (IF tx THEN 1 ELSE 0) + Cardinality({i \in DOMAIN workers : workers[i].status = "running"})

\* Camera::render, called on the scene before the world is moved into
\* render_parallel.
CanRender == rendered = None /\ rp = "idle"
Render ==
    /\ CanRender
    /\ rendered' = Some(render(scene.camera, scene.world))
    /\ UNCHANGED <<scene, call, rp, work, workers, tx, chan, canvas, count, writes>>

\* camera.rs:97-107: the canvas, the channel and the work list.
CanStart == rp = "idle" /\ rendered # None
RenderParallelStart ==
    /\ CanStart
    /\ LET w == work_of(scene.camera, ChunkDivisor)
       IN IF ~w.ok
          THEN /\ rp' = "panicked"
               /\ UNCHANGED <<work, tx, canvas, writes>>
          ELSE /\ rp' = "spawning"
               /\ work' = w.v
               /\ tx' = TRUE
               /\ canvas' = canvas_new(scene.camera.hsize, scene.camera.vsize)
               /\ writes' = [k \in 1..(scene.camera.hsize * scene.camera.vsize) |-> <<>>]
    /\ UNCHANGED <<scene, call, rendered, workers, chan, count>>

\* camera.rs:109-122: one turn of the loop that spawns a thread per chunk.
CanSpawn == rp = "spawning" /\ work # <<>>
Spawn ==
    /\ CanSpawn
    /\ workers' = Append(workers, [chunk |-> Head(work), next |-> 1, status |-> "running"])
    /\ work' = Tail(work)
    /\ UNCHANGED <<scene, call, rendered, rp, tx, chan, canvas, count, writes>>

\* The spawning loop is over.
CanDropTx == rp = "spawning" /\ work = <<>>

\* The receive loop entered with the orchestrator's sender still alive.
DropTxForgotten ==
    /\ CanDropTx
    /\ rp' = "receiving"
    /\ UNCHANGED <<scene, call, rendered, work, workers, tx, chan, canvas, count, writes>>

\* camera.rs:124: drop(tx), then on to the receive loop.
DropTx ==
    /\ CanDropTx
    /\ tx' = FALSE
    /\ rp' = "receiving"
    /\ UNCHANGED <<scene, call, rendered, work, workers, chan, canvas, count, writes>>

\* camera.rs:116-120: one turn of a worker's loop.  A panic in colour_at, or in
\* expect() when the receiver is gone, unwinds the thread and drops its sender.
CanSend(i) == workers[i].status = "running" /\ workers[i].next <= Len(workers[i].chunk)

\* A worker that holds the canvas and writes the cell itself, sending nothing.
WorkerWrites(i) ==
    /\ CanSend(i)
    /\ \E xy \in {workers[i].chunk[workers[i].next]} :
       \E c \in {colour_at(scene.world, ray_for_pixel(scene.camera, xy[1], xy[2]))} :
          IF c.ok /\ rx_alive
          THEN /\ canvas' = canvas_index_mut(canvas, xy[1], xy[2], c.v).v
               /\ writes' = [writes EXCEPT
                               ![xy[1] * scene.camera.vsize + xy[2] + 1] = Append(@, 0)]
               /\ workers' = [workers EXCEPT ![i].next = @ + 1]
          ELSE /\ workers' = [workers EXCEPT ![i].status = "panicked"]
               /\ UNCHANGED <<canvas, writes>>
    /\ UNCHANGED <<scene, call, rendered, rp, work, tx, chan, count>>
WorkerSend(i) ==
    /\ CanSend(i)
    /\ \E xy \in {workers[i].chunk[workers[i].next]} :
       \E c \in {colour_at(scene.world, ray_for_pixel(scene.camera, xy[1], xy[2]))} :
          IF c.ok /\ rx_alive
          THEN /\ chan' = Append(chan, <<xy[1], xy[2], c.v>>)
               /\ workers' = [workers EXCEPT ![i].next = @ + 1]
          ELSE /\ workers' = [workers EXCEPT ![i].status = "panicked"]
               /\ UNCHANGED chan
    /\ UNCHANGED <<scene, call, rendered, rp, work, tx, canvas, count, writes>>

\* camera.rs:121: the closure returns after its last pixel and drops its sender.
CanExit(i) == workers[i].status = "running" /\ workers[i].next > Len(workers[i].chunk)
WorkerExit(i) ==
    /\ CanExit(i)
    /\ workers' = [workers EXCEPT ![i].status = "exited"]
    /\ UNCHANGED <<scene, call, rendered, rp, work, tx, chan, canvas, count, writes>>

\* recv() has a message to return.
CanRecv == rp = "receiving" /\ chan # <<>>

\* A collector that takes the messages to arrive in the order of the pixels
\* and writes the cell whose turn it is.
RecvInArrivalOrder ==
    /\ CanRecv
    /\ count' = count + 1
    /\ chan' = Tail(chan)
    /\ canvas' = [canvas EXCEPT !.data = [canvas.data EXCEPT ![count + 1] = Head(chan)[3]]]
    /\ writes' = [writes EXCEPT ![count + 1] = Append(@, count + 1)]
    /\ UNCHANGED <<scene, call, rendered, rp, work, workers, tx>>

\* camera.rs:128-134: recv() returns the oldest message; the cell is written.
Recv ==
    /\ CanRecv
    /\ LET x == Head(chan)[1]
           y == Head(chan)[2]
           c == Head(chan)[3]
           written == canvas_index_mut(canvas, x, y, c)
       IN /\ count' = count + 1
          /\ chan' = Tail(chan)
          /\ IF written.ok
             THEN /\ canvas' = written.v
                  /\ writes' = [writes EXCEPT
                                  ![x * scene.camera.vsize + y + 1] = Append(@, count + 1)]
                  /\ rp' = rp
             ELSE /\ rp' = "panicked"
                  /\ UNCHANGED <<canvas, writes>>
    /\ UNCHANGED <<scene, call, rendered, work, workers, tx>>

\* camera.rs:128, 136: recv() fails once the channel is empty and every sender
\* is dropped; the loop ends and the canvas is returned.
CanDisconnect == rp = "receiving" /\ chan = <<>> /\ senders = 0
RecvDisconnected ==
    /\ CanDisconnect
    /\ rp' = "returned"
    /\ UNCHANGED <<scene, call, rendered, work, workers, tx, chan, canvas, count, writes>>

\* IntersectVec::hit called on the sequence of the scene.
CallHit ==
    /\ call.op = "none"
    /\ call' = [op |-> "hit", out |-> hit(scene.xs)]
    /\ UNCHANGED <<scene, rendered, rp, work, workers, tx, chan, canvas, count, writes>>

\* World::intersect_world called with the ray of the scene.
CallIntersectWorld ==
    /\ call.op = "none"
    /\ call' = [op |-> "intersect_world", out |-> intersect_world(scene.world, scene.ray)]
    /\ UNCHANGED <<scene, rendered, rp, work, workers, tx, chan, canvas, count, writes>>

\* World::is_shadowed_by called with a light of the world and the origin of
\* the scene's ray as the point.
CallIsShadowedBy ==
    /\ call.op = "none"
    /\ \E l \in DOMAIN scene.world.light :
          call' = [op |-> "is_shadowed_by", light |-> scene.world.light[l],
                   out |-> is_shadowed_by(scene.world, scene.world.light[l], scene.ray.origin)]
    /\ UNCHANGED <<scene, rendered, rp, work, workers, tx, chan, canvas, count, writes>>

\* World::shade_hit called with the computations prepared for the hit of the
\* scene's ray, as colour_at calls it.
CallShadeHit ==
    /\ call.op = "none"
    /\ \E xs \in {intersect_world(scene.world, scene.ray)} :
          /\ xs.ok
          /\ hit(xs.v) # None
          /\ \E comps \in {prepare_computations(hit(xs.v)[1], scene.ray)} :
                /\ comps.ok
                /\ call' = [op |-> "shade_hit", comps |-> comps.v,
                            out |-> shade_hit(scene.world, comps.v)]
    /\ UNCHANGED <<scene, rendered, rp, work, workers, tx, chan, canvas, count, writes>>

\* World::colour_at called with the ray of the scene.
CallColourAt ==
    /\ call.op = "none"
    /\ call' = [op |-> "colour_at", out |-> colour_at(scene.world, scene.ray)]
    /\ UNCHANGED <<scene, rendered, rp, work, workers, tx, chan, canvas, count, writes>>

Next ==
    \/ Render
    \/ RenderParallelStart
    \/ Spawn
    \/ DropTx
    \/ \E i \in DOMAIN workers : WorkerSend(i)
    \/ \E i \in DOMAIN workers : WorkerExit(i)
    \/ Recv
    \/ RecvDisconnected

Spec == Init /\ [][Next]_vars

\* The colour of the pixel xy of the scene, or the panic of its computation.
pixel_colour(xy) == colour_at(scene.world, ray_for_pixel(scene.camera, xy[1], xy[2]))

\* The number of the pixel xy in the order of all_pixels.
pixel_number(xy) == xy[1] * scene.camera.vsize + xy[2] + 1

\* The workers that have sent the pixel xy.
senders_of(xy) ==
    {i \in DOMAIN workers : \E p \in 1..(workers[i].next - 1) : workers[i].chunk[p] = xy}

\* C1: for every camera with hsize >= 1 and vsize >= 1 and every world,
\* render_parallel returns a raster equal to the one render returns: where
\* render has returned a raster, render_parallel does not panic and the raster
\* it returns is that one.
C1_SameRaster ==
    (rendered # None /\ rendered[1].ok) =>
        /\ rp # "panicked"
        /\ rp = "returned" => canvas = rendered[1].v

\* C2: when render_parallel has returned, every pixel has been sent by exactly
\* one worker, received and written exactly once with the value of colour_at
\* for its ray, and no worker was left with a result to send.
C2_EveryPixelOnce ==
    rp = "returned" =>
        /\ \A i \in DOMAIN workers : workers[i].next > Len(workers[i].chunk)
        /\ \A k \in DOMAIN writes :
              \A xy \in {all_pixels(scene.camera)[k]} :
                 /\ Cardinality(senders_of(xy)) = 1
                 /\ Len(writes[k]) = 1
                 /\ \A c \in {pixel_colour(xy)} :
                       c.ok /\ canvas_index(canvas, xy[1], xy[2]) = Ok(c.v)

\* C3, as claimed: every worker sends its whole chunk and exits; a worker
\* that is no longer running has sent all of its chunk and returned.
C3_WholeChunks ==
    \A i \in DOMAIN workers :
       workers[i].status # "running" =>
          workers[i].status = "exited" /\ workers[i].next > Len(workers[i].chunk)

\* render_parallel has ended: it has returned, or its own thread has panicked.
Ended == rp \in {"returned", "panicked"}

\* Some thread is not blocked: the guard of one of the actions holds.  Each
\* action is its guard and assignments that can always be made.
some_thread_can_step ==
    \/ CanRender \/ CanStart \/ CanSpawn \/ CanDropTx \/ CanRecv \/ CanDisconnect
    \/ \E i \in DOMAIN workers : CanSend(i) \/ CanExit(i)

\* A bound on the steps that remain: two per pixel and two per chunk not yet
\* handed to a worker, two per pixel a running worker has left and one for
\* its exit, one per message in the channel, and the stages of the
\* orchestrator.
RECURSIVE work_left(_)
work_left(chunks_left) ==
    IF chunks_left = <<>> THEN 0
    ELSE 2 * Len(Head(chunks_left)) + 2 + work_left(Tail(chunks_left))
RECURSIVE workers_left(_)
workers_left(ws) ==
    IF ws = <<>> THEN 0
    ELSE (IF Head(ws).status = "running"
          THEN 2 * (Len(Head(ws).chunk) - Head(ws).next + 1) + 1 ELSE 0)
         + workers_left(Tail(ws))
stage_left ==
    IF rp = "idle" THEN 4 * scene.camera.hsize * scene.camera.vsize + 3
    ELSE IF rp = "spawning" THEN 2
    ELSE IF rp = "receiving" THEN 1
    ELSE 0
steps_left ==
    (IF rendered = None THEN 1 ELSE 0) + stage_left + work_left(work)
    + workers_left(workers) + Len(chan)

\* A worker that is no longer running either exited after its whole chunk or
\* panicked at a pixel whose colour cannot be computed.
stopped_properly(w) ==
    \/ w.status = "running"
    \/ w.status = "exited" /\ w.next > Len(w.chunk)
    \/ /\ w.status = "panicked"
       /\ w.next <= Len(w.chunk)
       /\ ~pixel_colour(w.chunk[w.next]).ok

\* C3, amended: under fair scheduling render_parallel always ends.  Until it
\* has ended some thread is not blocked and every step lowers steps_left, so
\* no state is a deadlock and no run goes on forever; every worker sends its
\* whole chunk and exits or panics at a pixel without a colour; the
\* orchestrator holds no sender while it receives; and render_parallel
\* returns only with every sender gone and the channel empty.
C3_AlwaysEnds ==
    /\ [](~Ended => some_thread_can_step)
    /\ [][steps_left' < steps_left]_vars
    /\ [](\A i \in DOMAIN workers : stopped_properly(workers[i]))
    /\ [](rp = "receiving" => ~tx)
    /\ [](rp = "returned" => senders = 0 /\ chan = <<>>)

\* C3 witness: render_parallel has returned after one worker sent its whole
\* chunk and exited and another panicked in its chunk.
C3_Witness ==
    /\ rp = "returned"
    /\ \E i, j \in DOMAIN workers :
          /\ workers[i].status = "exited"
          /\ workers[i].next > Len(workers[i].chunk)
          /\ workers[j].status = "panicked"

\* The pixels of a chunk up to the p-th all have a colour: the worker of the
\* chunk gets as far as sending the p-th.
reported(chunk, p) == \A q \in 1..p : pixel_colour(chunk[q]).ok

\* C4: the raster render_parallel returns is the same for every interleaving
\* of the workers and every arrival order of the messages: it is a function
\* of the camera and the world, each cell holding the colour of its pixel
\* where the pixel's worker gets to send it and black where it does not.
C4_OrderIndependent ==
    rp = "returned" =>
        /\ Len(canvas.data) = scene.camera.hsize * scene.camera.vsize
        /\ \A chunk \in {workers[i].chunk : i \in DOMAIN workers} :
              \A p \in DOMAIN chunk :
                 canvas.data[scene.camera.hsize * chunk[p][2] + chunk[p][1] + 1] =
                    IF reported(chunk, p) THEN pixel_colour(chunk[p]).v ELSE BLACK

\* C4 witness: render_parallel has returned after the message of a later
\* pixel arrived before the message of an earlier one.
C4_Witness ==
    /\ rp = "returned"
    /\ \E k1, k2 \in DOMAIN writes :
          /\ k1 < k2
          /\ writes[k1] # <<>>
          /\ writes[k2] # <<>>
          /\ writes[k2][1] < writes[k1][1]

\* C5: a failure of the per-pixel computation is fatal in both modes: render
\* returns a raster, and render_parallel returns one, only if the colour of
\* every pixel could be computed.
C5_FailureIsFatal ==
    ((rendered # None /\ rendered[1].ok) \/ rp = "returned") =>
        \A k \in 1..(scene.camera.hsize * scene.camera.vsize) :
           pixel_colour(all_pixels(scene.camera)[k]).ok

(***************************************************************************)
(* Hit selection: every sequence of at most MaxXs intersections whose t is *)
(* drawn from HitTs; the k-th intersection is with the shape of id k.      *)
(***************************************************************************)
InitHit ==
    /\ scene \in {[xs |-> xs] : xs \in HitSequences}
    /\ call = [op |-> "none"]
    /\ RenderIdle

NextHit == CallHit

SpecHit == InitHit /\ [][NextHit]_vars

\* The t of the intersections of the scene, in their order.
ts_of(xs) == [k \in DOMAIN xs |-> xs[k].t]

\* C6: hit returns None exactly when no element has t >= 0; otherwise it
\* returns an element of the sequence with t >= 0 whose t is the least among
\* the elements with t >= 0.
C6_HitIsNearest ==
    call.op = "hit" =>
        /\ (call.out = None) <=> (\A k \in DOMAIN scene.xs : scene.xs[k].t < 0)
        /\ call.out # None =>
              /\ \E k \in DOMAIN scene.xs : scene.xs[k] = call.out[1]
              /\ call.out[1].t >= 0
              /\ \A k \in DOMAIN scene.xs :
                    scene.xs[k].t >= 0 => call.out[1].t <= scene.xs[k].t

\* C6 witness: t = [5, 7, -1, 2] gives the element with t = 2.
C6_Witness ==
    /\ call.op = "hit"
    /\ ts_of(scene.xs) = <<5 * One, 7 * One, -One, 2 * One>>
    /\ call.out = Some(scene.xs[4])
(***************************************************************************)
(* The world's functions: every world of Worlds with every ray of          *)
(* WorldRays.                                                              *)
(***************************************************************************)
InitWorld ==
    /\ scene \in {[world |-> w, ray |-> r] : w \in Worlds, r \in WorldRays}
    /\ call = [op |-> "none"]
    /\ RenderIdle

NextWorld ==
    \/ CallIntersectWorld
    \/ CallIsShadowedBy
    \/ CallShadeHit
    \/ CallColourAt

SpecWorld == InitWorld /\ [][NextWorld]_vars

\* The intersections one shape has with a ray, where intersect returns.
found_by(shape, ray) == unwrap_or_default(intersect(shape, ray).v)

\* How often x occurs in the sequence xs.
occurrences(xs, x) == Cardinality({j \in DOMAIN xs : xs[j] = x})

\* The places of all the per-shape intersections: <<shape, index>>.
places(world, ray) ==
    UNION { {k} \X DOMAIN found_by(world.objects[k], ray) : k \in DOMAIN world.objects }

\* C7: intersect_world returns a sequence sorted ascending by t that is a
\* permutation of the concatenation of the shapes' intersections: as long as
\* the sum of the per-shape counts, with every intersection of every shape as
\* often as the shape reported it.
C7_SortedPermutation ==
    (call.op = "intersect_world" /\ call.out.ok) =>
        /\ \A j \in 1..(Len(call.out.v) - 1) : call.out.v[j].t <= call.out.v[j + 1].t
        /\ Len(call.out.v) = Cardinality(places(scene.world, scene.ray))
        /\ \A k \in DOMAIN scene.world.objects :
              \A found \in {found_by(scene.world.objects[k], scene.ray)} :
                 \A j \in DOMAIN found :
                    occurrences(call.out.v, found[j]) = occurrences(found, found[j])

\* C7 witness: two shapes met at the same t, both intersections kept, next to
\* a result of four intersections.
C7_Witness ==
    /\ call.op = "intersect_world"
    /\ call.out.ok
    /\ Len(call.out.v) = 4
    /\ call.out.v[1].t = call.out.v[2].t
    /\ call.out.v[1].object # call.out.v[2].object

\* The ray is_shadowed_by casts from pt towards the light.
shadow_ray(light, pt) == ray_new(pt, normalize(tuple_sub(light.position, pt)))

\* Some shape has an intersection with the ray at a t in [0, distance).
occluded_within(world, ray, distance) ==
    \E k \in DOMAIN world.objects :
       \E found \in {found_by(world.objects[k], ray)} :
          \E j \in DOMAIN found : non_negative(found[j]) /\ float_value(found[j].t) < distance

\* C8: is_shadowed_by is true exactly when the ray from the point towards the
\* light has an intersection with 0 <= t < the distance to the light, that is,
\* when its hit exists and is nearer than the light.
C8_ShadowedIffNearerHit ==
    (call.op = "is_shadowed_by" /\ call.out.ok) =>
        (call.out.v <=>
            occluded_within(scene.world, shadow_ray(call.light, scene.ray.origin).v,
                            magnitude(tuple_sub(call.light.position, scene.ray.origin))))

\* C8 witness: an occluder beyond the light only, and the point is not shadowed.
C8_Witness ==
    /\ call.op = "is_shadowed_by"
    /\ call.out = Ok(FALSE)
    /\ scene.ray = ray_from_beyond
    /\ call.light = light_front
    /\ Len(scene.world.objects) = 1
    /\ scene.world.objects[1].kind = "sphere"
    /\ scene.world.objects[1].transform = IDENTITY_4X4

\* The sum of the colours of a sequence.
RECURSIVE colour_sum(_)
colour_sum(cs) == IF cs = <<>> THEN BLACK ELSE colour_add(Head(cs), colour_sum(Tail(cs)))

\* C9: for n >= 1 lights shade_hit returns the sum of the per-light lighting
\* results divided by n.
C9_Average ==
    (call.op = "shade_hit" /\ call.out.ok) =>
        call.out.v = colour_div_f(colour_sum(light_colours(scene.world, scene.world.light,
                                                          call.comps).v),
                                  Len(scene.world.light) * One)

\* No shape has an intersection with the ray at a t >= 0, and every shape's
\* intersect returns.
no_hit_along(world, ray) ==
    \A k \in DOMAIN world.objects :
       \A r \in {intersect(world.objects[k], ray)} :
          r.ok /\ \A j \in DOMAIN unwrap_or_default(r.v) : unwrap_or_default(r.v)[j].t < 0

\* C10: for a ray without an intersection at t >= 0, colour_at returns black
\* and is_shadowed_by, casting such a ray, returns false; neither panics.
C10_MissIsOrdinary ==
    /\ (call.op = "colour_at" /\ no_hit_along(scene.world, scene.ray)) =>
          call.out = Ok(BLACK)
    /\ call.op = "is_shadowed_by" =>
          \A r \in {shadow_ray(call.light, scene.ray.origin)} :
             (r.ok /\ no_hit_along(scene.world, r.v)) => call.out = Ok(FALSE)

\* C10 witness: the only intersections are behind the origin of the ray, and
\* colour_at has returned.
C10_Witness ==
    /\ call.op = "colour_at"
    /\ scene.ray = ray_away
    /\ scene.world.objects # <<>>
    /\ scene.world.light # <<>>
    /\ no_hit_along(scene.world, scene.ray)
    /\ places(scene.world, scene.ray) # {}
    /\ call.out = Ok(BLACK)

(***************************************************************************)
(* Lighting: Material::lighting with every argument from small sets, and   *)
(* World::shade_hit in worlds whose shapes all have an inverse and that    *)
(* have a light.                                                           *)
(***************************************************************************)
\* A ray from between the two spheres towards the one at the origin.
ray_between == ray_new(point(0, 0, (3 * One) \div 2), vector(0, 0, -One)).v

LightingWorlds ==
    { w \in Worlds :
        /\ w.objects # <<>>
        /\ w.light # <<>>
        /\ \A k \in DOMAIN w.objects : can_invert(w.objects[k].transform) }

LightingRays == WorldRays \union {ray_between}

green_material == [default_material EXCEPT !.colour = <<One \div 2, One, One \div 2>>]
Materials == {default_material, green_material}
Lights == {light_front, light_back, point_light(<<One, One \div 2, One>>, point(0, 0, -10 * One))}
Directions == {vector(0, 0, One), vector(0, 0, -One), vector(0, One, 0)}

\* The arguments of a call of lighting.
LightingArgs ==
    { [material |-> m, light |-> l, pt |-> ZERO_POINT, eye_vec |-> e, normal_vec |-> n,
       in_shadow |-> s] :
      m \in Materials, l \in Lights, e \in Directions, n \in Directions, s \in BOOLEAN }

\* A scene is a world with a ray, or the arguments of one call of lighting
\* next to the empty world.
InitLighting ==
    /\ scene \in { [world |-> w, ray |-> r, args |-> None] :
                   w \in LightingWorlds, r \in LightingRays }
              \union
                 { [world |-> [objects |-> <<>>, light |-> <<>>], ray |-> ray_towards,
                    args |-> Some(a)] : a \in LightingArgs }
    /\ call = [op |-> "none"]
    /\ RenderIdle

\* Material::lighting called with the arguments of the scene.
CallLighting ==
    /\ call.op = "none"
    /\ scene.args # None
    /\ \E a \in {scene.args[1]} :
          call' = [op |-> "lighting", args |-> a,
                   out |-> lighting(a.material, a.light, a.pt, a.eye_vec, a.normal_vec,
                                    a.in_shadow)]
    /\ UNCHANGED <<scene, rendered, rp, work, workers, tx, chan, canvas, count, writes>>

NextLighting ==
    \/ CallLighting
    \/ CallShadeHit

SpecLighting == InitLighting /\ [][NextLighting]_vars

\* material.colour x light.intensity x material.ambient, component by component.
ambient_term(material, light) ==
    [i \in 1..3 |-> Mul(Mul(material.colour[i], light.intensity[i]), material.ambient)]

\* What one light gives at the over point of the computations: the ambient
\* term where a shape lies between the over point and the light, the lit
\* colour elsewhere.
colour_expected(world, l, comps) ==
    IF occluded_within(world, shadow_ray(l, comps.over_point).v,
                       magnitude(tuple_sub(l.position, comps.over_point)))
    THEN ambient_term(comps.object.material, l)
    ELSE lighting_lit(comps.object.material, l, comps.over_point, comps.eye_vector,
                      comps.normal_vector)

RECURSIVE colours_expected(_, _, _)
colours_expected(world, lights, comps) ==
    IF lights = <<>> THEN <<>>
    ELSE <<colour_expected(world, Head(lights), comps)>>
         \o colours_expected(world, Tail(lights), comps)

RayTuples ==
    { <<xyz[1], xyz[2], xyz[3], w>> :
      xyz \in {<<0, 0, 0>>, <<0, 0, -5 * One>>, <<One, 2 * One, 3 * One>>},
      w \in {0, One, 2 * One, NaN} }

\* A matrix that is not affine: its last row adds z to w.
z_into_w == [IDENTITY_4X4 EXCEPT ![4] = <<0, 0, One, One>>]

RayMatrices ==
    {IDENTITY_4X4, translation(One, 0, 3 * One), scaling(2 * One, 2 * One, 2 * One),
     scaling(0, 0, 0), z_into_w}

InitRay ==
    /\ scene \in { [origin |-> o, direction |-> d, matrix |-> m] :
                   o \in RayTuples, d \in RayTuples, m \in RayMatrices }
    /\ call = [op |-> "none"]
    /\ RenderIdle

\* Ray::new called with the two tuples of the scene.
CallRayNew ==
    /\ call.op = "none"
    /\ call' = [op |-> "ray_new", out |-> ray_new(scene.origin, scene.direction)]
    /\ UNCHANGED <<scene, rendered, rp, work, workers, tx, chan, canvas, count, writes>>

\* Ray::transform called on the ray Ray::new returned, with the matrix of the
\* scene.
CallRayTransform ==
    /\ call.op = "ray_new"
    /\ call.out.ok
    /\ call' = [op |-> "transform", ray |-> call.out.v,
                out |-> ray_transform(call.out.v, scene.matrix)]
    /\ UNCHANGED <<scene, rendered, rp, work, workers, tx, chan, canvas, count, writes>>

NextRay ==
    \/ CallRayNew
    \/ CallRayTransform

SpecRay == InitRay /\ [][NextRay]_vars

\* The call returned exactly when o has w = 1 and d has w = 0, and then the
\* ray it returned is the ray of o and d.
returns_ray_of(out, o, d) ==
    /\ out.ok <=> (o[4] = One /\ d[4] = 0)
    /\ out.ok => out.v = [origin |-> o, direction |-> d]

MatrixRows ==
    { <<One, 0, 0, 0>>, <<0, One, 0, 0>>, <<0, 0, 2 * One, 0>>, <<0, 0, 0, One>>,
      <<One, 2 * One, 0, One>> }

Matrices == { <<r1, r2, r3, r4>> : r1 \in MatrixRows, r2 \in MatrixRows,
                                    r3 \in MatrixRows, r4 \in MatrixRows }

InitMatrix ==
    /\ scene \in { [m |-> m] : m \in Matrices }
    /\ call = [op |-> "none"]
    /\ RenderIdle

\* Matrix::inverse called on the matrix of the scene.
CallInverse ==
    /\ call.op = "none"
    /\ call' = [op |-> "inverse", out |-> inverse(scene.m)]
    /\ UNCHANGED <<scene, rendered, rp, work, workers, tx, chan, canvas, count, writes>>

\* Matrix::can_invert called on the matrix of the scene.
CallCanInvert ==
    /\ call.op = "none"
    /\ call' = [op |-> "can_invert", out |-> can_invert(scene.m)]
    /\ UNCHANGED <<scene, rendered, rp, work, workers, tx, chan, canvas, count, writes>>

NextMatrix ==
    \/ CallInverse
    \/ CallCanInvert

SpecMatrix == InitMatrix /\ [][NextMatrix]_vars

\* C13: inverse returns None exactly when the determinate is 0, can_invert is
\* true exactly when inverse returns Some, and the entry of the inverse in
\* row col and column row is cofactor(row, col) / determinate.
C13_InverseIffDeterminate ==
    /\ call.op = "inverse" =>
          \A det \in {determinate(scene.m)} :
             /\ call.out = None <=> det = 0
             /\ call.out # None <=> can_invert(scene.m)
             /\ call.out # None =>
                   \A row \in 1..4 : \A col \in 1..4 :
                      call.out[1][col][row] = Div(cofactor(scene.m, row, col), det)
    /\ call.op = "can_invert" => (call.out <=> inverse(scene.m) # None)

\* C13 witness: the inverse of a matrix that is not symmetric, which
\* multiplied with the matrix gives the identity.
C13_Witness ==
    /\ call.op = "inverse"
    /\ call.out # None
    /\ scene.m # transpose(scene.m)
    /\ matrix_mul(scene.m, call.out[1]) = IDENTITY_4X4
    /\ matrix_mul(call.out[1], scene.m) = IDENTITY_4X4

(***************************************************************************)
(* Fluent transforms: chains of at most MaxChain calls of translate,       *)
(* scale, rotate_x, rotate_y and rotate_z on a matrix.                     *)
(***************************************************************************)
MaxChain == 3

Offsets == {<<One, 0, 3 * One>>, <<0, -2 * One, One>>}
Factors == {<<2 * One, One, One>>, <<One, 3 * One, -One>>}
Angles == {1, 2}

InitFluent ==
    /\ scene \in { [m |-> m, pt |-> p] :
                   m \in {IDENTITY_4X4, translation(0, One, 0)},
                   p \in {point(One, 0, One), point(0, One, 2 * One)} }
    /\ call = [op |-> "none"]
    /\ RenderIdle

\* The matrix the next call of the chain is made on, and the matrices of the
\* calls made so far.
chained == IF call.op = "none" THEN [m |-> scene.m, steps |-> <<>>] ELSE call
CanChain == Len(chained.steps) < MaxChain

\* A fluent call has returned m; base is the matrix of the call alone.
Chain(m, base) ==
    /\ call' = [op |-> "chain", m |-> m, steps |-> Append(chained.steps, base)]
    /\ UNCHANGED <<scene, rendered, rp, work, workers, tx, chan, canvas, count, writes>>

CallTranslate ==
    /\ CanChain
    /\ \E t \in Offsets :
          Chain(translate(chained.m, t[1], t[2], t[3]), translation(t[1], t[2], t[3]))
CallScale ==
    /\ CanChain
    /\ \E f \in Factors : Chain(scale(chained.m, f[1], f[2], f[3]), scaling(f[1], f[2], f[3]))
CallRotateX ==
    /\ CanChain
    /\ \E a \in Angles : Chain(rotate_x(chained.m, a), rotation_x(a))
CallRotateY ==
    /\ CanChain
    /\ \E a \in Angles : Chain(rotate_y(chained.m, a), rotation_y(a))
CallRotateZ ==
    /\ CanChain
    /\ \E a \in Angles : Chain(rotate_z(chained.m, a), rotatation_z(a))

NextFluent ==
    \/ CallTranslate
    \/ CallScale
    \/ CallRotateX
    \/ CallRotateY
    \/ CallRotateZ

SpecFluent == InitFluent /\ [][NextFluent]_vars

\* The product of the matrices of a chain with the last call's leftmost:
\* for <<R, S, T>> it is (T * S) * R.
RECURSIVE product_of(_)
product_of(steps) ==
    IF steps = <<>> THEN IDENTITY_4X4
    ELSE matrix_mul(product_of(Tail(steps)), Head(steps))

\* The point p moved by the matrices of a chain one after the other.
RECURSIVE applied_in_turn(_, _)
applied_in_turn(steps, p) ==
    IF steps = <<>> THEN p
    ELSE applied_in_turn(Tail(steps), matrix_mul_tuple(Head(steps), p))

\* C14: every fluent call multiplies the accumulated matrix from the left: the
\* matrix of a chain is the product of the calls' matrices, the last call's
\* leftmost, times the matrix the chain started on, and it moves a point as
\* the calls' matrices do one after the other.
C14_FluentPreMultiplies ==
    call.op = "chain" =>
        /\ call.m = matrix_mul(product_of(call.steps), scene.m)
        /\ matrix_mul_tuple(call.m, scene.pt)
              = applied_in_turn(call.steps, matrix_mul_tuple(scene.m, scene.pt))

\* C14 witness: IDENTITY.rotate_x(a).scale(s).translate(t) is
\* translation(t) * scaling(s) * rotation_x(a), which is not the product in
\* the order of the calls.
C14_Witness ==
    /\ call.op = "chain"
    /\ scene.m = IDENTITY_4X4
    /\ call.steps = <<rotation_x(1), scaling(2 * One, One, One), translation(One, 0, 3 * One)>>
    /\ call.m = matrix_mul(translation(One, 0, 3 * One),
                           matrix_mul(scaling(2 * One, One, One), rotation_x(1)))
    /\ call.m # matrix_mul(rotation_x(1),
                           matrix_mul(scaling(2 * One, One, One), translation(One, 0, 3 * One)))

(***************************************************************************)
(* Shapes: spheres and planes with affine, non-affine and singular         *)
(* transforms, and rays that meet them, touch them and miss them.          *)
(***************************************************************************)
ShapeTransforms ==
    {IDENTITY_4X4, translation(0, 0, 3 * One), translation(0, One, 0),
     scaling(2 * One, 2 * One, 2 * One), rotation_x(1), z_into_w,
     scaling(0, 0, 0), scaling(One, 0, One)}

Shapes ==
    { sphere_new(1, t) : t \in ShapeTransforms } \union { plane_new(1, t) : t \in ShapeTransforms }

\* Rays parallel to the z axis that touch the unit sphere and miss it, and
\* rays along the y axis towards the xz plane and away from it.
ray_tangent == ray_new(point(0, One, -5 * One), vector(0, 0, One)).v
ray_missing == ray_new(point(0, 2 * One, -5 * One), vector(0, 0, One)).v
ray_down == ray_new(point(0, 2 * One, 0), vector(0, -One, 0)).v
ray_up == ray_new(point(0, 2 * One, 0), vector(0, One, 0)).v

\* A ray whose direction is the zero vector.
ray_still == ray_new(point(0, 0, -5 * One), vector(0, 0, 0)).v

ShapeRays ==
    {ray_towards, ray_away, ray_behind, ray_inside, ray_between, ray_tangent, ray_missing,
     ray_down, ray_up, ray_still}

InitShape ==
    /\ scene \in { [shape |-> s, ray |-> r] : s \in Shapes, r \in ShapeRays }
    /\ call = [op |-> "none"]
    /\ RenderIdle

\* RayIntersect::intersect called on the shape with the ray of the scene.
CallIntersect ==
    /\ call.op = "none"
    /\ call' = [op |-> "intersect", locals |-> local_calls(scene.shape, scene.ray),
                out |-> intersect(scene.shape, scene.ray)]
    /\ UNCHANGED <<scene, rendered, rp, work, workers, tx, chan, canvas, count, writes>>

\* The ray r moved by the matrix m, tuple by tuple.
moved_by(m, r) ==
    [origin |-> matrix_mul_tuple(m, r.origin), direction |-> matrix_mul_tuple(m, r.direction)]

\* intersect made one call of the local routine, with the ray local, and
\* returned what the routine returns for it.
delegated_once(shape, local) ==
    /\ call.locals = <<local>>
    /\ call.out = Ok(local_interception(shape, local))

CallNormalAt ==
    /\ call.op = "none"
    /\ call' = [op |-> "normal_at", out |-> normal_at(scene.shape, scene.ray.origin)]
    /\ UNCHANGED <<scene, rendered, rp, work, workers, tx, chan, canvas, count, writes>>

\* Camera::new_with_transform called with the transform of the scene's shape
\* and a field of view of a quarter turn.
CallCameraNew ==
    /\ call.op = "none"
    /\ \E hv \in Sizes :
          call' = [op |-> "camera_new",
                   out |-> camera_new_with_transform(hv[1], hv[2], 1, scene.shape.transform)]
    /\ UNCHANGED <<scene, rendered, rp, work, workers, tx, chan, canvas, count, writes>>

NextShape ==
    \/ CallIntersect
    \/ CallNormalAt
    \/ CallCameraNew

SpecShape == InitShape /\ [][NextShape]_vars

C16_SingularIsUnusable ==
    (call.op \in {"intersect", "normal_at", "camera_new"}
     /\ determinate(scene.shape.transform) = 0) => call.out = Panic

\* C16 witness: a sphere that has a transform without an inverse, and
\* normal_at on it has panicked.
C16_Witness ==
    /\ call.op = "normal_at"
    /\ scene.shape = sphere_new(1, scaling(One, 0, One))
    /\ determinate(scene.shape.transform) = 0
    /\ call.out = Panic

\* a <= b on f64: false when either side is NaN.
float_le(a, b) == a # NaN /\ b # NaN /\ a <= b

\* b^2 - 4ac of the sphere's routine for a local ray.
discriminant_of(ray) ==
    Mul(2 * dot(ray.direction, ray.origin), 2 * dot(ray.direction, ray.origin))
    - 4 * Mul(dot(ray.direction, ray.direction),
              dot(<<ray.origin[1], ray.origin[2], ray.origin[3], 0>>,
                  <<ray.origin[1], ray.origin[2], ray.origin[3], 0>>) - One)

\* xs is None or two intersections with the shape, smaller t first.
none_or_two_ordered(xs, shape) ==
    xs # None =>
        /\ Len(xs[1]) = 2
        /\ xs[1][1].object = shape /\ xs[1][2].object = shape
        /\ float_le(xs[1][1].t, xs[1][2].t)

\* C17, as claimed: for every ray the sphere's routine returns nothing when
\* the discriminant is negative and otherwise two intersections with that
\* sphere, t0 <= t1.
C17_EveryRay ==
    (call.op = "intersect" /\ scene.shape.kind = "sphere" /\ call.out.ok) =>
        /\ call.out.v = None <=> discriminant_of(call.locals[1]) < 0
        /\ none_or_two_ordered(call.out.v, scene.shape)

\* C17, amended: for every ray with a = direction . direction > 0 the
\* sphere's routine returns nothing when the discriminant is negative and
\* otherwise exactly two intersections with that sphere, t0 <= t1, also when
\* the ray touches the sphere and when the sphere is behind the origin; for
\* the zero direction (a = 0) it returns two intersections with that sphere
\* whose t is NaN.
C17_NoneOrTwoOrdered ==
    (call.op = "intersect" /\ scene.shape.kind = "sphere" /\ call.out.ok) =>
        /\ call.out.v = None <=> discriminant_of(call.locals[1]) < 0
        /\ IF dot(call.locals[1].direction, call.locals[1].direction) > 0
           THEN none_or_two_ordered(call.out.v, scene.shape)
           ELSE call.out.v = Some(<<intersection_new(NaN, scene.shape),
                                    intersection_new(NaN, scene.shape)>>)

\* C17 witness: a ray that touches the unit sphere has two intersections at
\* the same t.
C17_Witness ==
    /\ call.op = "intersect"
    /\ scene.shape = sphere_new(1, IDENTITY_4X4)
    /\ scene.ray = ray_tangent
    /\ discriminant_of(call.locals[1]) = 0
    /\ call.out = Ok(Some(<<intersection_new(5 * One, scene.shape),
                            intersection_new(5 * One, scene.shape)>>))


\* ---------------------------------------------------------------------
\* Shape identity: shape.rs:52-80, sphere.rs:28-34, plane.rs:13-29,
\* test_shape.rs:15-27.  scene.shapes are the shape values alive in the
\* process, scene.fresh the next value Uuid::new_v4 hands out (version 4
\* ids are taken as never repeating).
\* ---------------------------------------------------------------------
MaxShapes == 3

\* Uuid::default(), the id of a TestShape built by its derived Default.
NilUuid == 0

\* &dyn Shape == &dyn Shape, shape.rs:52-56.
shape_eq(a, b) == a.id = b.id

\* TestShape::default(), test_shape.rs:15-22.
test_shape_default ==
    [id |-> NilUuid, kind |-> "test_shape", transform |-> IDENTITY_4X4,
     material |-> default_material,
     saved_ray |-> [origin |-> <<0, 0, 0, 0>>, direction |-> <<0, 0, 0, 0>>]]

\* shape_base!, shape.rs:75-77 and 71-73.
set_transform(shape, transform) == [shape EXCEPT !.transform = transform]
set_material(shape, material) == [shape EXCEPT !.material = material]

InitIdentity ==
    /\ scene = [shapes |-> <<>>, fresh |-> 1]
    /\ call = [op |-> "none"]
    /\ RenderIdle

CanCreate == Len(scene.shapes) < MaxShapes

Created(shape, fresh, op) ==
    /\ scene' = [shapes |-> Append(scene.shapes, shape), fresh |-> fresh]
    /\ call' = [op |-> op]
    /\ UNCHANGED <<rendered, rp, work, workers, tx, chan, canvas, count, writes>>

\* Sphere::new_with_transform, sphere.rs:28-34.
CallSphereNew ==
    /\ CanCreate
    /\ \E m \in {IDENTITY_4X4, scaling(2 * One, 2 * One, 2 * One)} :
          Created(sphere_new(scene.fresh, m), scene.fresh + 1, "sphere_new")

\* Plane::new, plane.rs:22-29.
CallPlaneNew ==
    /\ CanCreate
    /\ \E m \in {IDENTITY_4X4, scaling(2 * One, 2 * One, 2 * One)} :
          Created(plane_new(scene.fresh, m), scene.fresh + 1, "plane_new")

\* Plane's derived Clone, plane.rs:13: a second value, every field copied.
CallPlaneClone ==
    /\ CanCreate
    /\ \E i \in 1..Len(scene.shapes) :
          /\ scene.shapes[i].kind = "plane"
          /\ Created(scene.shapes[i], scene.fresh, "plane_clone")

\* TestShape::default(), test_shape.rs:15-22.
CallTestShapeDefault ==
    /\ CanCreate
    /\ Created(test_shape_default, scene.fresh, "test_shape_default")

Replaced(i, shape, op) ==
    /\ scene' = [scene EXCEPT !.shapes[i] = shape]
    /\ call' = [op |-> op]
    /\ UNCHANGED <<rendered, rp, work, workers, tx, chan, canvas, count, writes>>

CallSetTransform ==
    \E i \in 1..Len(scene.shapes) :
       \E m \in {IDENTITY_4X4, scaling(2 * One, 2 * One, 2 * One)} :
          Replaced(i, set_transform(scene.shapes[i], m), "set_transform")

CallSetMaterial ==
    \E i \in 1..Len(scene.shapes) :
       \E m \in Materials :
          Replaced(i, set_material(scene.shapes[i], m), "set_material")

NextIdentity ==
    \/ CallSphereNew
    \/ CallPlaneNew
    \/ CallPlaneClone
    \/ CallTestShapeDefault
    \/ CallSetTransform
    \/ CallSetMaterial

SpecIdentity == InitIdentity /\ [][NextIdentity]_vars

\* No two of the shapes alive compare equal.
ids_unique ==
    \A i, j \in 1..Len(scene.shapes) :
       i # j => ~shape_eq(scene.shapes[i], scene.shapes[j])

\* A step changes no id of a shape that exists.
ids_stable ==
    \A i \in 1..Len(scene.shapes) : scene'.shapes[i].id = scene.shapes[i].id

\* C18: two distinct shape values never compare equal under the &dyn Shape
\* equality, and the id of a shape never changes after construction, also
\* across set_transform and set_material.
C18_UniqueStableIds == []ids_unique /\ [][ids_stable]_vars



\* ---------------------------------------------------------------------
\* Canvas indexing: canvas.rs:14-16, 24-30, 83-94.  scene.canvas is the
\* canvas; a call names a coordinate inside or outside its extents.
\* ---------------------------------------------------------------------
Coordinates == (0..MaxPixels) \X (0..MaxPixels)

InitCanvas ==
    /\ \E hv \in Sizes : scene = [canvas |-> canvas_new(hv[1], hv[2])]
    /\ call = [op |-> "none"]
    /\ RenderIdle

\* canvas[(x, y)], canvas.rs:83-88.
CallCanvasIndex ==
    /\ \E xy \in Coordinates :
          call' = [op |-> "index", x |-> xy[1], y |-> xy[2], before |-> scene.canvas,
                   out |-> canvas_index(scene.canvas, xy[1], xy[2])]
    /\ UNCHANGED <<scene, rendered, rp, work, workers, tx, chan, canvas, count, writes>>

\* canvas[(x, y)] = c, canvas.rs:90-94.
CallCanvasIndexMut ==
    /\ \E xy \in Coordinates, c \in {BLACK, WHITE} :
          \E written \in {canvas_index_mut(scene.canvas, xy[1], xy[2], c)} :
             /\ call' = [op |-> "index_mut", x |-> xy[1], y |-> xy[2],
                         before |-> scene.canvas,
                         out |-> IF written.ok THEN Ok(c) ELSE Panic]
             /\ scene' = IF written.ok THEN [canvas |-> written.v] ELSE scene
    /\ UNCHANGED <<rendered, rp, work, workers, tx, chan, canvas, count, writes>>

NextCanvas == CallCanvasIndex \/ CallCanvasIndexMut

SpecCanvas == InitCanvas /\ [][NextCanvas]_vars

\* The coordinates inside the extents of a canvas.
in_range(c) == {xy \in Coordinates : xy[1] < c.width /\ xy[2] < c.height}

\* C19: indexing with x >= width or y >= height aborts and leaves every cell
\* as it was, and distinct coordinates inside the extents address distinct
\* cells.
C19_OutOfRangeAborts ==
    /\ (call.op \in {"index", "index_mut"}
        /\ (call.x >= call.before.width \/ call.y >= call.before.height)) =>
           (call.out = Panic /\ scene.canvas = call.before)
    /\ \A p, q \in in_range(scene.canvas) :
          p # q => make_index(scene.canvas.width, p[1], p[2])
                   # make_index(scene.canvas.width, q[1], q[2])

\* The part of C19 the code keeps: a coordinate whose index width * y + x is
\* at least width * height aborts, which covers every y >= height, and
\* distinct coordinates inside the extents address distinct cells.
C19_PastTheEndAborts ==
    /\ (call.op \in {"index", "index_mut"}
        /\ (call.y >= call.before.height
            \/ call.before.width * call.y + call.x
               >= call.before.width * call.before.height)) =>
           (call.out = Panic /\ scene.canvas = call.before)
    /\ \A p, q \in in_range(scene.canvas) :
          p # q => make_index(scene.canvas.width, p[1], p[2])
                   # make_index(scene.canvas.width, q[1], q[2])


\* ---------------------------------------------------------------------
\* The work list and the spawning loop of Camera::render_parallel with the
\* divisor of the source, camera.rs:100-122.  Only the chunks and the
\* workers started are followed, not what the workers do.
\* ---------------------------------------------------------------------
\* The divisor of camera.rs:103.
Sixteen == 16

\* Cameras are at most MaxSide pixels wide and high.
MaxSide == 6

InitChunks ==
    /\ \E h, v \in 1..MaxSide :
          scene = [camera |-> camera_new_with_transform(h, v, 1, IDENTITY_4X4).v]
    /\ call = [op |-> "none"]
    /\ RenderIdle

\* camera.rs:100-105: the work list.
SplitWork ==
    /\ rp = "idle"
    /\ \E w \in {work_of(scene.camera, Sixteen)} :
          IF ~w.ok
          THEN /\ rp' = "panicked"
               /\ call' = [op |-> "split", chunks |-> <<>>]
               /\ UNCHANGED work
          ELSE /\ rp' = "spawning"
               /\ call' = [op |-> "split", chunks |-> w.v]
               /\ work' = w.v
    /\ UNCHANGED <<scene, rendered, workers, tx, chan, canvas, count, writes>>

NextChunks == SplitWork \/ Spawn

SpecChunks == InitChunks /\ [][NextChunks]_vars

\* The chunks one after the other.
RECURSIVE joined(_)
joined(cs) == IF cs = <<>> THEN <<>> ELSE Head(cs) \o joined(Tail(cs))

\* The spawning loop has gone through the whole work list.
all_spawned == call.op = "split" /\ work = <<>>

\* One worker per chunk of the split, in the order of the chunks.
one_worker_per_chunk ==
    /\ Len(workers) = Len(call.chunks)
    /\ \A i \in DOMAIN workers : workers[i].chunk = call.chunks[i]

\* C20: for every camera the pixel list is split into exactly 16 contiguous
\* chunks, and once the spawning loop is over exactly 16 workers have been
\* started, one per chunk.
C20_SixteenWorkers ==
    /\ call.op = "split" =>
          /\ Len(call.chunks) = 16
          /\ joined(call.chunks) = all_pixels(scene.camera)
    /\ all_spawned => (Len(workers) = 16 /\ one_worker_per_chunk)

\* What the code does in place of C20: fewer than 16 pixels abort before
\* any worker starts; otherwise the chunks are contiguous, hold
\* (hsize * vsize) / 16 pixels each but the last, number 16 exactly when
\* the pixel count is a multiple of 16 and between 17 and 31 otherwise, and
\* one worker is started per chunk.
C20_ChunksOfASixteenth ==
    \A n \in {scene.camera.hsize * scene.camera.vsize} :
       /\ (call.op = "split" /\ n < 16) => (rp = "panicked" /\ workers = <<>>)
       /\ (call.op = "split" /\ n >= 16) =>
             /\ joined(call.chunks) = all_pixels(scene.camera)
             /\ \A i \in 1..(Len(call.chunks) - 1) : Len(call.chunks[i]) = n \div 16
             /\ (Len(call.chunks) = 16) <=> (n % 16 = 0)
             /\ Len(call.chunks) >= 16 /\ Len(call.chunks) <= 31
       /\ all_spawned => one_worker_per_chunk


\* ---------------------------------------------------------------------
\* Ownership of the raster during render_parallel, camera.rs:96-137.
\* ---------------------------------------------------------------------
\* The cells in which the canvases a and b of equal extents differ.
cells_changed(a, b) == {k \in DOMAIN a.data : a.data[k] # b.data[k]}

\* The number of writes logged over all cells.
RECURSIVE writes_logged(_)
writes_logged(ws) == IF ws = <<>> THEN 0 ELSE Len(Head(ws)) + writes_logged(Tail(ws))

\* The step is the collector's: it takes the oldest message off the channel
\* and no worker moves in it.
collector_receives ==
    /\ rp = "receiving"
    /\ chan # <<>>
    /\ chan' = Tail(chan)
    /\ count' = count + 1
    /\ workers' = workers

\* The step writes exactly the cell named by the oldest message, with its
\* colour, and logs that one write.
writes_received_cell ==
    \A cell \in {make_index(canvas.width, Head(chan)[1], Head(chan)[2]) + 1} :
       /\ cells_changed(canvas, canvas') \subseteq {cell}
       /\ canvas'.data[cell] = Head(chan)[3]
       /\ writes' = [writes EXCEPT ![pixel_number(Head(chan))] = Append(@, count + 1)]

\* The step creates the canvas, before any worker exists.
canvas_created == rp = "idle" /\ rp' = "spawning" /\ workers = <<>>

\* C21: the raster is written only by the orchestrating thread, one cell per
\* received message and only after that message was received: a step that
\* changes the raster or logs a write is the collector taking a message and
\* writing that message's cell, or the creation of the raster; a step in
\* which a worker moves leaves the raster alone; and the writes number the
\* messages received.
C21_OnlyCollectorWrites ==
    /\ [][(canvas' # canvas \/ writes' # writes) =>
             \/ canvas_created
             \/ collector_receives /\ writes_received_cell]_vars
    /\ [][workers' # workers => (canvas' = canvas /\ writes' = writes)]_vars
    /\ [](rp \in {"receiving", "returned"} => writes_logged(writes) = count)

\* C21 witness: the collector has written a cell from a message while a
\* worker is still running with pixels left to send.
C21_Witness ==
    /\ rp = "receiving"
    /\ count = 1
    /\ writes_logged(writes) = 1
    /\ \E k \in DOMAIN canvas.data : writes[k] = <<1>> /\ canvas.data[k] # BLACK
    /\ \E i \in DOMAIN workers : CanSend(i)


\* ---------------------------------------------------------------------
\* What a worker's operations leave behind in the scene.  Every method of
\* World, Shape, Light, Material and Camera takes &self; the one write
\* through a shared reference is TestShape::local_interception, which
\* replaces saved_ray behind its Mutex (test_shape.rs:39-46).
\* ---------------------------------------------------------------------
\* The shape after intersect(shape, ray), shape.rs:41-49: a TestShape has
\* stored the local ray if local_interception was reached.
saved_after(shape, ray) ==
    IF shape.kind = "test_shape" /\ local_calls(shape, ray) # <<>>
    THEN [shape EXCEPT !.saved_ray = local_calls(shape, ray)[1]]
    ELSE shape

\* The objects after the flat_map of world.rs:28-32, which stops at the
\* first intersect that panics.
RECURSIVE objects_after(_, _)
objects_after(objects, ray) ==
    IF objects = <<>> THEN <<>>
    ELSE IF ~intersect(Head(objects), ray).ok THEN objects
    ELSE <<saved_after(Head(objects), ray)>> \o objects_after(Tail(objects), ray)

\* The world after intersect_world(ray), world.rs:27-36.
world_after_intersect_world(world, ray) ==
    [world EXCEPT !.objects = objects_after(world.objects, ray)]

\* The world after is_shadowed_by(light, pt), world.rs:72-81.
world_after_towards_light(world, towards_light) ==
    IF ~towards_light.ok THEN world ELSE world_after_intersect_world(world, towards_light.v)
world_after_is_shadowed_by(world, light, pt) ==
    world_after_towards_light(world, ray_new(pt, normalize(tuple_sub(light.position, pt))))

\* The world after the map of shade_hit, world.rs:40-50, over the lights
\* that remain; it stops at the first light whose shadow test panics.
RECURSIVE world_after_lights(_, _, _)
world_after_lights(world, lights, pt) ==
    IF lights = <<>> THEN world
    ELSE IF ~is_shadowed_by(world, Head(lights), pt).ok
    THEN world_after_is_shadowed_by(world, Head(lights), pt)
    ELSE world_after_lights(world_after_is_shadowed_by(world, Head(lights), pt),
                            Tail(lights), pt)

\* The world after colour_at(ray), world.rs:55-66.
world_after_comps(world, comps) ==
    IF ~comps.ok THEN world ELSE world_after_lights(world, world.light, comps.v.over_point)
world_after_hit(world, ray, xs) ==
    IF ~xs.ok THEN world
    ELSE IF hit(xs.v) = None THEN world
    ELSE world_after_comps(world, prepare_computations(hit(xs.v)[1], ray))
world_after_colour_at(world, ray) ==
    world_after_hit(world_after_intersect_world(world, ray), ray,
                    intersect_world(world, ray))


\* A TestShape with the given id and transform, as set_transform leaves it.
test_shape_new(id, transform) ==
    [test_shape_default EXCEPT !.id = id, !.transform = transform]

FrameShapes(id) ==
    {sphere_new(id, IDENTITY_4X4), sphere_new(id, translation(0, 0, 3 * One)),
     plane_new(id, IDENTITY_4X4), singular_sphere(id),
     test_shape_new(id, IDENTITY_4X4),
     test_shape_new(id, scaling(2 * One, 2 * One, 2 * One))}

FrameWorlds ==
    { [objects |-> <<a>>, light |-> lights] :
        a \in FrameShapes(1), lights \in {<<>>, <<light_front>>, <<light_front, light_back>>} }
    \cup
    { [objects |-> <<a, b>>, light |-> <<light_front>>] :
        a \in FrameShapes(1), b \in FrameShapes(2) }

InitFrame ==
    /\ scene \in {[camera |-> c, world |-> w, ray |-> r] :
                    c \in {k \in Cameras : k.hsize = 1 /\ k.vsize = 1},
                    w \in FrameWorlds, r \in {ray_towards, ray_inside}}
    /\ call = [op |-> "none"]
    /\ RenderIdle

\* The call op was made on the scene and left the world as world.
Worked(op, world) ==
    /\ call.op = "none"
    /\ call' = [op |-> op, before |-> scene]
    /\ scene' = [scene EXCEPT !.world = world]
    /\ UNCHANGED <<rendered, rp, work, workers, tx, chan, canvas, count, writes>>

\* Camera::ray_for_pixel(&self), camera.rs:65-79.
FrameRayForPixel == Worked("ray_for_pixel", scene.world)

\* Shape::normal_at(&self), shape.rs:25-34.
FrameNormalAt == Worked("normal_at", scene.world)

\* Material::lighting(&self), materials.rs:30-62.
FrameLighting == Worked("lighting", scene.world)

\* intersect(&self) of one object of the world, shape.rs:41-49.
FrameIntersect ==
    \E k \in DOMAIN scene.world.objects :
       Worked("intersect",
              [scene.world EXCEPT !.objects[k] = saved_after(scene.world.objects[k], scene.ray)])

\* World::intersect_world(&self), world.rs:27-36.
FrameIntersectWorld ==
    Worked("intersect_world", world_after_intersect_world(scene.world, scene.ray))

\* World::is_shadowed_by(&self), world.rs:72-81, from the origin of the ray.
FrameIsShadowedBy ==
    \E l \in DOMAIN scene.world.light :
       Worked("is_shadowed_by",
              world_after_is_shadowed_by(scene.world, scene.world.light[l], scene.ray.origin))

\* World::shade_hit(&self), world.rs:38-53, on the hit of the ray.
FrameShadeHit ==
    \E xs \in {intersect_world(scene.world, scene.ray)} :
       /\ xs.ok
       /\ hit(xs.v) # None
       /\ \E comps \in {prepare_computations(hit(xs.v)[1], scene.ray)} :
             /\ comps.ok
             /\ Worked("shade_hit",
                       world_after_lights(scene.world, scene.world.light, comps.v.over_point))

\* World::colour_at(&self), world.rs:55-66.
FrameColourAt == Worked("colour_at", world_after_colour_at(scene.world, scene.ray))

NextFrame ==
    \/ FrameRayForPixel
    \/ FrameNormalAt
    \/ FrameLighting
    \/ FrameIntersect
    \/ FrameIntersectWorld
    \/ FrameIsShadowedBy
    \/ FrameShadeHit
    \/ FrameColourAt

SpecFrame == InitFrame /\ [][NextFrame]_vars

\* C22: no operation of a render worker changes the world, a shape, a
\* light, a material or the camera: the scene after it equals the scene
\* before it.
C22_SceneUnchanged == call.op # "none" => scene = call.before

\* a and b are the same shape but for the ray a TestShape has stored.
same_but_saved_ray(a, b) ==
    \/ a = b
    \/ a.kind = "test_shape" /\ b.kind = "test_shape" /\ a = [b EXCEPT !.saved_ray = a.saved_ray]

\* What the code keeps of C22: the camera, the lights, the number and order
\* of the shapes and every id, transform and material are as before; spheres
\* and planes are unchanged; only the saved_ray of a TestShape can differ.
C22_OnlyTestShapeRecords ==
    call.op # "none" =>
        /\ scene.camera = call.before.camera
        /\ scene.ray = call.before.ray
        /\ scene.world.light = call.before.world.light
        /\ Len(scene.world.objects) = Len(call.before.world.objects)
        /\ \A k \in DOMAIN scene.world.objects :
              same_but_saved_ray(scene.world.objects[k], call.before.world.objects[k])


\* ---------------------------------------------------------------------
\* Material::lighting at a lit point, materials.rs:30-62: the diffuse and
\* the specular term against the light's and the eye's direction.
\* ---------------------------------------------------------------------
matt_material == [default_material EXCEPT !.shininess = 0]
soft_material == [default_material EXCEPT !.shininess = One]
SpecularMaterials == {default_material, matt_material, soft_material}

AxisDirections ==
    {vector(0, 0, One), vector(0, 0, -One), vector(0, One, 0), vector(0, -One, 0),
     vector(One, 0, 0)}

SpecularArgs ==
    { [material |-> m, light |-> l, pt |-> ZERO_POINT, eye_vec |-> e, normal_vec |-> n] :
      m \in SpecularMaterials, l \in Lights \cup {point_light(WHITE, point(0, 10 * One, 0))},
      e \in AxisDirections, n \in AxisDirections }

InitSpecular ==
    /\ scene \in {[args |-> a] : a \in SpecularArgs}
    /\ call = [op |-> "none"]
    /\ RenderIdle

\* Material::lighting called on a point that is not in shadow.
CallLightingLit ==
    /\ call.op = "none"
    /\ \E a \in {scene.args} :
          call' = [op |-> "lighting",
                   out |-> lighting(a.material, a.light, a.pt, a.eye_vec, a.normal_vec, FALSE)]
    /\ UNCHANGED <<scene, rendered, rp, work, workers, tx, chan, canvas, count, writes>>

NextSpecular == CallLightingLit

SpecSpecular == InitSpecular /\ [][NextSpecular]_vars

\* The direction from the point of the arguments a to their light, and the
\* two dot products lighting branches on.
light_vec_of(a) == normalize(tuple_sub(a.light.position, a.pt))
light_dot_normal_of(a) == dot(light_vec_of(a), a.normal_vec)
reflect_dot_eye_of(a) == dot(reflect(tuple_neg(light_vec_of(a)), a.normal_vec), a.eye_vec)

\* light.intensity x material.specular x reflect_dot_eye ^ shininess.
specular_term(a) ==
    colour_mul_f(colour_mul_f(a.light.intensity, a.material.specular),
                 powf(reflect_dot_eye_of(a), a.material.shininess))

\* effective_colour x material.diffuse x light_dot_normal.
diffuse_term(a) ==
    colour_mul_f(colour_mul_f(colour_mul(a.material.colour, a.light.intensity),
                              a.material.diffuse),
                 light_dot_normal_of(a))

\* ambient + diffuse + specular with the specular term black up to the
\* threshold: reflect_dot_eye <= 0 when inclusive, < 0 otherwise.
lit_colour(a, inclusive) ==
    IF light_dot_normal_of(a) < 0
    THEN colour_add(colour_add(ambient_term(a.material, a.light), BLACK), BLACK)
    ELSE colour_add(colour_add(ambient_term(a.material, a.light), diffuse_term(a)),
                    IF reflect_dot_eye_of(a) < 0 \/ (inclusive /\ reflect_dot_eye_of(a) = 0)
                    THEN BLACK ELSE specular_term(a))

\* C23: at a lit point, light_dot_normal < 0 gives black diffuse and
\* specular; otherwise diffuse is effective_colour x material.diffuse x
\* light_dot_normal and specular is black whenever reflect_dot_eye <= 0, for
\* every shininess, and intensity x material.specular x
\* reflect_dot_eye ^ shininess only when reflect_dot_eye > 0.
C23_SpecularBlackUpToZero ==
    call.op = "lighting" => call.out = lit_colour(scene.args, TRUE)

\* What the code computes: the specular term is black only for
\* reflect_dot_eye < 0; at reflect_dot_eye = 0 it is intensity x
\* material.specular x 0 ^ shininess, which is black for a positive
\* shininess and intensity x material.specular for shininess 0.
C23_SpecularBlackBelowZero ==
    /\ call.op = "lighting" => call.out = lit_colour(scene.args, FALSE)
    /\ (call.op = "lighting" /\ scene.args.material.shininess > 0) =>
          call.out = lit_colour(scene.args, TRUE)


\* ---------------------------------------------------------------------
\* Intersection::prepare_computations, intersection.rs:19-37, on the
\* intersections of the scene's ray with the scene's shape.
\* ---------------------------------------------------------------------
\* The intersections intersect(shape, ray) returns whose t is a number; hit
\* never selects one whose t is NaN.
intersections_of(shape, ray) ==
    IF ~intersect(shape, ray).ok THEN {}
    ELSE {x \in {unwrap_or_default(intersect(shape, ray).v)[k] :
                   k \in DOMAIN unwrap_or_default(intersect(shape, ray).v)} : x.t # NaN}

CallPrepareComputations ==
    /\ call.op = "none"
    /\ \E i \in intersections_of(scene.shape, scene.ray) :
          call' = [op |-> "prepare_computations", i |-> i,
                   out |-> prepare_computations(i, scene.ray)]
    /\ UNCHANGED <<scene, rendered, rp, work, workers, tx, chan, canvas, count, writes>>

NextPrepare == CallPrepareComputations \/ CallIntersect

SpecPrepare == InitShape /\ [][NextPrepare]_vars

\* The computations c are those of the claim for the intersection i of ray,
\* given the shape's own normal at the point.
turned_to_eye(c, i, ray, normal) ==
    /\ c.object = i.object
    /\ c.t = i.t
    /\ c.point = position(ray, float_value(i.t))
    /\ c.eye_vector = tuple_neg(ray.direction)
    /\ c.inside = (dot(normal, c.eye_vector) < 0)
    /\ c.normal_vector = IF c.inside THEN tuple_neg(normal) ELSE normal
    /\ dot(c.normal_vector, c.eye_vector) >= 0

\* C24: for an intersection of a ray with a shape, prepare_computations sets
\* inside = (normal . eye < 0) from the shape's unflipped normal, returns
\* normal_vector = -normal when inside and normal otherwise, so that
\* normal_vector . eye_vector >= 0; eye_vector is the negated ray direction
\* and point is ray.position(t).
C24_NormalFacesEye ==
    call.op = "prepare_computations" =>
        /\ call.out.ok
        /\ turned_to_eye(call.out.v, call.i, scene.ray,
                         normal_at(scene.shape, position(scene.ray, float_value(call.i.t))).v)

\* C24 witness: the ray that starts inside the unit sphere leaves it at
\* t = 1, where the sphere's normal (0, 0, 1) points away from the eye and
\* is returned negated.
C24_Witness ==
    /\ call.op = "prepare_computations"
    /\ scene.shape = sphere_new(1, IDENTITY_4X4)
    /\ scene.ray = ray_inside
    /\ call.i.t = One
    /\ call.out.v.inside
    /\ normal_at(scene.shape, call.out.v.point) = Ok(vector(0, 0, One))
    /\ call.out.v.normal_vector = vector(0, 0, -One)


\* ---------------------------------------------------------------------
\* The over point and the origin of the shadow test, world.rs:38-53.
\* ---------------------------------------------------------------------
\* What one light gives at the over point of the computations when the
\* shadow test is cast from origin.
colour_cast_from(world, l, comps, origin) ==
    lighting(comps.object.material, l, comps.over_point, comps.eye_vector,
             comps.normal_vector,
             occluded_within(world, shadow_ray(l, origin).v,
                             magnitude(tuple_sub(l.position, origin))))

RECURSIVE colours_cast_from(_, _, _, _)
colours_cast_from(world, lights, comps, origin) ==
    IF lights = <<>> THEN <<>>
    ELSE <<colour_cast_from(world, Head(lights), comps, origin)>>
         \o colours_cast_from(world, Tail(lights), comps, origin)

\* The colour of the hit when every shadow test is cast from origin.
shaded_from(world, comps, origin) ==
    reduce_unwrap(Ok(colours_cast_from(world, world.light, comps, origin)),
                  Len(world.light) * One)

earlier_steps(steps) == SubSeq(steps, 1, Len(steps) - 1)
last_step(steps) == steps[Len(steps)]

\* The matrix the chain was at before its last call.
before_last(steps, start) == matrix_mul(product_of(earlier_steps(steps)), start)

\* C26, as claimed: the call written last is the first transform applied to
\* a point the composed matrix multiplies: the composed matrix moves a point
\* as the last call's matrix followed by the matrix of the chain before it.
C26_LastCallFirst ==
    (call.op = "chain" /\ call.steps # <<>>) =>
        matrix_mul_tuple(call.m, scene.pt)
           = matrix_mul_tuple(before_last(call.steps, scene.m),
                              matrix_mul_tuple(last_step(call.steps), scene.pt))

\* C26, amended: the call written last is the last transform applied to a
\* point the composed matrix multiplies, farthest from the object's local
\* space: the composed matrix moves a point as the matrix of the chain
\* before the last call followed by the last call's matrix, and the call
\* written first is the first applied after the matrix the chain started on.
C26_LastCallLast ==
    (call.op = "chain" /\ call.steps # <<>>) =>
        /\ matrix_mul_tuple(call.m, scene.pt)
              = matrix_mul_tuple(last_step(call.steps),
                                 matrix_mul_tuple(before_last(call.steps, scene.m), scene.pt))
        /\ matrix_mul_tuple(call.m, scene.pt)
              = applied_in_turn(Tail(call.steps),
                                matrix_mul_tuple(Head(call.steps),
                                                 matrix_mul_tuple(scene.m, scene.pt)))

\* C26 witness: IDENTITY.scale(2, 1, 1).translate(1, 0, 3) moves the point
\* (1, 0, 1) to (3, 0, 4), scaled first and translated last; translated
\* first it would be (4, 0, 4).
C26_Witness ==
    /\ call.op = "chain"
    /\ scene.m = IDENTITY_4X4
    /\ scene.pt = point(One, 0, One)
    /\ call.steps = <<scaling(2 * One, One, One), translation(One, 0, 3 * One)>>
    /\ matrix_mul_tuple(call.m, scene.pt) = point(3 * One, 0, 4 * One)
    /\ matrix_mul_tuple(scaling(2 * One, One, One),
                        matrix_mul_tuple(translation(One, 0, 3 * One), scene.pt))
          = point(4 * One, 0, 4 * One)


\* ---------------------------------------------------------------------
\* Camera::new_with_transform, camera.rs:30-57, for a field of view of a
\* quarter turn, whose half_view tan(fov / 2) is 1.
\* ---------------------------------------------------------------------
CameraTransforms ==
    {IDENTITY_4X4, translation(0, 0, -5 * One), rotation_y(1), scaling(0, 0, 0)}

InitCamera ==
    /\ \E h, v \in 1..MaxSide, m \in CameraTransforms :
          scene = [hsize |-> h, vsize |-> v, fov |-> 1, transform |-> m]
    /\ call = [op |-> "none"]
    /\ RenderIdle

CallCameraNewWithTransform ==
    /\ call.op = "none"
    /\ call' = [op |-> "new_with_transform",
                out |-> camera_new_with_transform(scene.hsize, scene.vsize, scene.fov,
                                                  scene.transform)]
    /\ UNCHANGED <<scene, rendered, rp, work, workers, tx, chan, canvas, count, writes>>

NextCamera == CallCameraNewWithTransform

SpecCamera == InitCamera /\ [][NextCamera]_vars

\* hsize / vsize of the scene.
aspect_of_scene == Div(scene.hsize * One, scene.vsize * One)

\* pixel_size = 2 * half_width / hsize.
pixel_size_from_width(c) == c.pixel_size = Div(2 * c.half_width, scene.hsize * One)

\* C27, as claimed: with half_view = 1, aspect >= 1 gives half_width =
\* half_view and half_height = half_view / aspect; otherwise half_height =
\* half_view and half_width = half_view / aspect; pixel_size = 2 *
\* half_width / hsize.
C27_HalfWidthDivided ==
    (call.op = "new_with_transform" /\ call.out.ok) =>
        /\ IF aspect_of_scene >= One
           THEN /\ call.out.v.half_width = One
                /\ call.out.v.half_height = Div(One, aspect_of_scene)
           ELSE /\ call.out.v.half_height = One
                /\ call.out.v.half_width = Div(One, aspect_of_scene)
        /\ pixel_size_from_width(call.out.v)

\* C27, amended: with half_view = 1, aspect >= 1 gives half_width =
\* half_view and half_height = half_view / aspect; otherwise half_height =
\* half_view and half_width = half_view * aspect, so neither half extent
\* exceeds half_view; pixel_size = 2 * half_width / hsize.
C27_HalfWidthMultiplied ==
    (call.op = "new_with_transform" /\ call.out.ok) =>
        /\ IF aspect_of_scene >= One
           THEN /\ call.out.v.half_width = One
                /\ call.out.v.half_height = Div(One, aspect_of_scene)
           ELSE /\ call.out.v.half_height = One
                /\ call.out.v.half_width = Mul(One, aspect_of_scene)
        /\ call.out.v.half_width <= One
        /\ call.out.v.half_height <= One
        /\ pixel_size_from_width(call.out.v)

\* C27 witness: the camera of 1 x 2 pixels has aspect 1/2, half_height 1,
\* half_width 1/2 and pixel_size 1.
C27_Witness ==
    /\ call.op = "new_with_transform"
    /\ scene.hsize = 1 /\ scene.vsize = 2
    /\ call.out.ok
    /\ aspect_of_scene = One \div 2
    /\ call.out.v.half_height = One
    /\ call.out.v.half_width = One \div 2
    /\ call.out.v.pixel_size = One


\* C28: render_parallel does not abort for any camera with hsize >= 1 and
\* vsize >= 1, also with fewer than 16 pixels or a pixel count that is no
\* multiple of 16: the split of the work list goes on to the spawning loop.
C28_NeverAborts == call.op = "split" => (rp = "spawning" /\ call.chunks # <<>>)

\* What the code keeps of C28: the split aborts exactly for the cameras of
\* fewer than 16 pixels; a pixel count of 16 or more, a multiple of 16 or
\* not, goes on to the spawning loop with every pixel in a chunk.
C28_AbortsBelowSixteen ==
    call.op = "split" =>
        /\ (rp = "panicked") <=> (scene.camera.hsize * scene.camera.vsize < 16)
        /\ rp # "panicked" => joined(call.chunks) = all_pixels(scene.camera)


\* ---------------------------------------------------------------------
\* Ties at the nearest intersection: IntersectVec::hit,
\* intersection.rs:56-64, and World::colour_at, world.rs:55-66.  A scene is a
\* sequence of intersections, or a world with a ray.
\* ---------------------------------------------------------------------
TieTs == {NegZero, 0, 0 - One, 2 * One}

TieSequences ==
    UNION { { [k \in 1..n |-> intersection_new(ts[k], sphere_new(k, IDENTITY_4X4))] :
              ts \in [1..n -> TieTs] } : n \in 1..3 }

\* A shape of the kind and colour given, at the origin.
tie_shape(kind, colour, id) ==
    [id |-> id, kind |-> kind, transform |-> IDENTITY_4X4,
     material |-> [default_material EXCEPT !.colour = colour]]

TieShapes(id) ==
    {tie_shape("sphere", WHITE, id), tie_shape("sphere", green_material.colour, id),
     tie_shape("plane", green_material.colour, id)}

TieWorlds ==
    { [objects |-> <<a, b>>, light |-> <<light_front>>] :
        a \in TieShapes(1), b \in TieShapes(2) }

\* A ray that starts on the unit sphere and in the xz plane, into the sphere
\* and upwards.
ray_grazing == ray_new(point(One, 0, 0), vector(-One, One, 0)).v

TieRays == {ray_towards, ray_inside, ray_grazing, ray_down}

InitTie ==
    /\ scene \in { [xs |-> xs, world |-> [objects |-> <<>>, light |-> <<>>],
                    ray |-> ray_towards] : xs \in TieSequences }
              \cup
                 { [xs |-> <<>>, world |-> w, ray |-> r] : w \in TieWorlds, r \in TieRays }
    /\ call = [op |-> "none"]
    /\ RenderIdle

\* IntersectVec::hit on the sequence of the scene.
TieHit ==
    /\ call.op = "none"
    /\ scene.xs # <<>>
    /\ call' = [op |-> "hit", out |-> hit(scene.xs)]
    /\ UNCHANGED <<scene, rendered, rp, work, workers, tx, chan, canvas, count, writes>>

\* World::colour_at on the world and the ray of the scene.
TieColourAt ==
    /\ call.op = "none"
    /\ scene.world.objects # <<>>
    /\ call' = [op |-> "colour_at", out |-> colour_at(scene.world, scene.ray)]
    /\ UNCHANGED <<scene, rendered, rp, work, workers, tx, chan, canvas, count, writes>>

NextTie == TieHit \/ TieColourAt

SpecTie == InitTie /\ [][NextTie]_vars

\* The first place of xs that holds a t >= 0 with the least Key among the
\* t >= 0 of xs.
first_nearest(xs, Key(_)) ==
    CHOOSE k \in DOMAIN xs :
       /\ non_negative(xs[k])
       /\ \A j \in DOMAIN xs : non_negative(xs[j]) => Key(xs[j].t) >= Key(xs[k].t)
       /\ \A j \in 1..(k - 1) : non_negative(xs[j]) => Key(xs[j].t) > Key(xs[k].t)

has_non_negative(xs) == \E k \in DOMAIN xs : non_negative(xs[k])

\* hit returns the first of the nearest under Key.
hit_is_first_nearest(xs, out, Key(_)) ==
    IF has_non_negative(xs) THEN out = Some(xs[first_nearest(xs, Key)]) ELSE out = None

\* The shapes' intersections with the ray, in the order of world.objects.
in_object_order(world, ray) == gather(world.objects, ray).v

\* colour_at shades the intersection of the first shape of world.objects
\* among the nearest under Key, or returns black where nothing is hit.
shades_first_nearest(world, ray, out, Key(_)) ==
    IF has_non_negative(in_object_order(world, ray))
    THEN out = colour_of_comps(world,
                 prepare_computations(
                    in_object_order(world, ray)[first_nearest(in_object_order(world, ray), Key)],
                    ray))
    ELSE out = Ok(BLACK)

\* C29, as claimed: among the intersections with t >= 0 that share the
\* minimum t as numbers, hit returns the first of the sequence and colour_at
\* shades the surface of the shape that comes first in world.objects.
C29_FirstOfEqualT ==
    /\ call.op = "hit" => hit_is_first_nearest(scene.xs, call.out, float_value)
    /\ call.op = "colour_at" =>
          shades_first_nearest(scene.world, scene.ray, call.out, float_value)

\* C29, amended: the ties are those of f64::total_cmp, for which -0.0 comes
\* before 0.0 although the two are equal as numbers: among the intersections
\* with t >= 0 that are least under total_cmp hit returns the first of the
\* sequence, and colour_at shades the surface of the shape that comes first
\* in world.objects among those; an intersection at t = -0.0 is taken before
\* one at t = 0.0 wherever it stands.
C29_FirstOfTotalOrder ==
    /\ call.op = "hit" => hit_is_first_nearest(scene.xs, call.out, total_key)
    /\ call.op = "colour_at" =>
          shades_first_nearest(scene.world, scene.ray, call.out, total_key)

\* C29 witness: two coincident spheres of different colours are hit at the
\* same t, and the colour is the one of the first sphere's surface.
C29_Witness ==
    /\ call.op = "colour_at"
    /\ scene.ray = ray_towards
    /\ scene.world.objects
          = <<tie_shape("sphere", green_material.colour, 1), tie_shape("sphere", WHITE, 2)>>
    /\ call.out = colour_at([scene.world EXCEPT !.objects = <<scene.world.objects[1]>>],
                            scene.ray)
    /\ call.out # colour_at([scene.world EXCEPT !.objects = <<scene.world.objects[2]>>],
                            scene.ray)


\* ---------------------------------------------------------------------
\* Worlds without a light: World::shade_hit, colour_at and is_shadowed,
\* world.rs:38-70, over every world of Worlds with every ray of WorldRays.
\* ---------------------------------------------------------------------
\* The points is_shadowed is asked about: the origin of the scene's ray, a
\* point between the two spheres and a point behind both.
ShadowPoints == {point(0, 0, 0 - 5 * One), point(0, 0, 2 * One), point(0, 0, 10 * One)}

\* World::is_shadowed called with a point.
CallIsShadowed ==
    /\ call.op = "none"
    /\ \E pt \in ShadowPoints \cup {scene.ray.origin} :
          call' = [op |-> "is_shadowed", point |-> pt, out |-> is_shadowed(scene.world, pt)]
    /\ UNCHANGED <<scene, rendered, rp, work, workers, tx, chan, canvas, count, writes>>

NextDark ==
    \/ CallShadeHit
    \/ CallColourAt
    \/ CallIsShadowed

SpecDark == InitWorld /\ [][NextDark]_vars

\* What colour_at gives without a light: an abort where the ray has a hit (or
\* where intersect_world itself aborts), black where it has none.
dark_colour(xs) ==
    IF ~xs.ok THEN Panic
    ELSE IF hit(xs.v) = None THEN Ok(BLACK)
    ELSE Panic

\* C30: in a world with zero lights shade_hit aborts, colour_at aborts for
\* every ray that has a hit and returns black for every ray without one, and
\* is_shadowed returns false for every point.
C30_NoLights ==
    scene.world.light = <<>> =>
       /\ call.op = "shade_hit" => call.out = Panic
       /\ call.op = "colour_at"
             => call.out = dark_colour(intersect_world(scene.world, scene.ray))
       /\ call.op = "is_shadowed" => call.out = Ok(FALSE)

\* C30 witness: colour_at has aborted for a ray that hits a sphere of a world
\* without a light, whose shapes all have an inverse.
C30_Witness ==
    /\ call.op = "colour_at"
    /\ scene.world.light = <<>>
    /\ scene.world.objects # <<>>
    /\ intersect_world(scene.world, scene.ray).ok
    /\ hit(intersect_world(scene.world, scene.ray).v) # None
    /\ call.out = Panic
====
